---- MODULE Spec2Model ----
(***************************************************************************)
(* Model of the real-time conversation messaging engine of UNIChat         *)
(* (apps/chat/consumers.py, apps/chat/models.py, apps/chat/views.py).      *)
(*                                                                         *)
(* One ChatConsumer instance per session slot; the channel layer is a map  *)
(* from group names to subscribed sessions plus one inbox per session; the *)
(* relational store is a collection of row sets.                           *)
(***************************************************************************)
EXTENDS FiniteSets, Integers, Naturals, Sequences, TLC

(***************************************************************************)
(* Bounds of the model                                                     *)
(***************************************************************************)
MaxMsgs == 1
MaxTime == 3
MaxInbox == 1

(***************************************************************************)
(* Program constants                                                       *)
(***************************************************************************)
CLOSE_UNAUTHENTICATED == 4001
CLOSE_INTERNAL_ERROR == 4000
\* timedelta(hours=24); one clock unit is 12 hours
DELETE_WINDOW == 2

Users == {"u1", "u2"}
\* ids a token can carry: the users and an id no User row ever had
UserIds == Users \cup {"u0"}
Anonymous == "anon"
NoUserId == ""
Unset == "unset"
Sessions == {"s1", "s2"}
Convs == {"c1", "c2"}
\* the ids of conversations created later, and all conversation ids
NewConvs == {"c3"}
AllConvs == Convs \cup NewConvs
NoConv == ""
NoId == 0

\* valid_reactions of handle_react_to_message (two of the ten symbols)
valid_reactions == {"thumbs_up", "heart"}

\* bodies a client may put in 'content', as sequences of tokens; " " is
\* whitespace
Bodies == {<< >>, <<" ">>, <<"hi">>, <<" ", "hi", " ">>}

VARIABLES
    sstate,       \* session -> "Connecting" | "Active" | "Failed" | "Rejected" | "Closed"
    user,         \* session -> self.user (Unset before connect ran)
    accepted,     \* session -> accept() was called
    closeCode,    \* session -> code passed to close(), 0 when close() was not called
    user_groups,  \* session -> self.user_groups
    groups,       \* channel layer: group name -> set of subscribed sessions
    inbox,        \* channel layer: session -> events waiting for the consumer
    memberships,  \* ConversationMembership rows
    messages,     \* Message rows, message id = index
    reactions,    \* MessageReaction rows
    reads,        \* MessageRead rows
    typing,       \* TypingIndicator rows
    presence,     \* UserPresence status per user ("none" = no row)
    now,          \* timezone.now()
    last,         \* the operation executed by the last step
    sent,         \* frames written to client sockets by the last step
    published,    \* group_send calls made by the last step
    pending,      \* session -> the reaction request whose transaction is open
    auth_cache,   \* cache entries under "auth_user:<id>" (NoEntry: no key)
    user_store,   \* User rows: id -> "absent" | "active" | "inactive"
    conversations, \* Conversation rows by id (NoConversation: no row)
    upload,       \* the process_file_upload task and its staged temp file
    adding        \* add_conversation_member requests between check and write

vars == <<sstate, user, accepted, closeCode, user_groups, groups, inbox,
          memberships, messages, reactions, reads, typing, presence, now,
          last, sent, published, pending, auth_cache, user_store, conversations, upload, adding>>

(***************************************************************************)
(* Pure helpers                                                            *)
(***************************************************************************)
RECURSIVE lstrip(_)
lstrip(b) == IF b # << >> /\ Head(b) = " " THEN lstrip(Tail(b)) ELSE b

RECURSIVE rstrip(_)
rstrip(b) == IF b # << >> /\ b[Len(b)] = " "
             THEN rstrip(SubSeq(b, 1, Len(b) - 1)) ELSE b

\* str.strip()
strip(b) == rstrip(lstrip(b))

\* f"conversation_{conversation_id}"
GroupName(c) == <<"conversation_", c>>
GroupNames == {GroupName(c) : c \in Convs}

Sentinel_fixed(delete_reason) == <<"[Message ", "deleted", "]">>

\* f"[Message {delete_reason}]"
Sentinel(delete_reason) == <<"[Message ", delete_reason, "]">>

MessageIds == 1..Len(messages)

\* the attribute self.user_groups exists once connect passed line 34
HasUserGroups(s) == user[s] \in Users

is_authenticated_any(u) == TRUE

\* user.is_authenticated: false for AnonymousUser
is_authenticated(u) == u \in Users

Frame(s, type, data) == [to |-> s, type |-> type, data |-> data]

send_error_to_all(s, message) ==
    <<Frame("s1", "error", message), Frame("s2", "error", message)>>

\* send_error: one 'error' frame to the session itself
send_error(s, message) == <<Frame(s, "error", message)>>

group_deliver_to_all(g, ev) ==
    [s \in Sessions |->
        IF sstate[s] = "Active" THEN Append(inbox[s], ev) ELSE inbox[s]]

\* channel_layer.group_send: the event is queued for every channel of the
\* group; a channel whose consumer is gone never reads it
group_deliver(g, ev) ==
    [s \in Sessions |->
        IF s \in groups[g] /\ sstate[s] = "Active"
        THEN Append(inbox[s], ev) ELSE inbox[s]]

GroupHasRoom(g) == \A s \in groups[g] : Len(inbox[s]) < MaxInbox

\* ConversationMembership.objects.filter(conversation_id=c, user=u, is_active=True)
ActiveMembership(u, c) ==
    {m \in memberships : m.conversation = c /\ m.user = u /\ m.is_active}

check_conversation_membership_any_row(s, c) ==
    {m \in memberships : m.conversation = c /\ m.user = user[s]} # {}

\* check_conversation_membership
check_conversation_membership(s, c) == ActiveMembership(user[s], c) # {}

(***************************************************************************)
(* Initial state                                                           *)
(***************************************************************************)
Membership(u, c, role, active) ==
    [user |-> u, conversation |-> c, role |-> role, is_active |-> active,
     last_read_at |-> -1]

Msg(c, u, content, type, ts) ==
    [conversation |-> c, sender |-> u, content |-> content,
     message_type |-> type, timestamp |-> ts,
     is_edited |-> FALSE, edited_at |-> -1]

\* Conversation.max_members default
DEFAULT_MAX_MEMBERS == 10
\* max_members of a personal conversation
PERSONAL_MAX_MEMBERS == 2

Conversation(type, u, max_members) ==
    [type |-> type, created_by |-> u, max_members |-> max_members]
NoConversation == [type |-> "none", created_by |-> "", max_members |-> 0]

NoPending == [op |-> "none"]

\* no process_file_upload task was queued
NoUpload == [status |-> "none", retries |-> 0, temp_file |-> FALSE,
             conversation |-> NoConv, user |-> NoUserId, chat_files |-> 0]

\* REST requests that are served at the same time
Requests == {"r1", "r2"}

\* no add_conversation_member request is being served
NoRequest == [user |-> NoUserId, conversation |-> NoConv, new |-> NoUserId,
              existing_membership |-> {}]

\* cache.get returns None
NoEntry == [id |-> "", is_active |-> FALSE, timeout |-> 0]

InitMemberships ==
    {Membership("u1", "c1", "admin", TRUE),
     Membership("u2", "c1", "member", TRUE),
     Membership("u2", "c2", "admin", TRUE),
     Membership("u1", "c2", "member", FALSE)}

Init ==
    /\ sstate = [s \in Sessions |-> "Connecting"]
    /\ user = [s \in Sessions |-> Unset]
    /\ accepted = [s \in Sessions |-> FALSE]
    /\ closeCode = [s \in Sessions |-> 0]
    /\ user_groups = [s \in Sessions |-> {}]
    /\ groups = [g \in GroupNames |-> {}]
    /\ inbox = [s \in Sessions |-> << >>]
    /\ memberships = InitMemberships
    /\ messages = << >>
    /\ reactions = {}
    /\ reads = {}
    /\ typing = {}
    /\ presence = [u \in Users |-> "none"]
    /\ now = 0
    /\ last = [kind |-> "init"]
    /\ sent = << >>
    /\ published = << >>
    /\ pending = [s \in Sessions |-> NoPending]
    /\ auth_cache = [u \in UserIds |-> NoEntry]
    /\ user_store = [u \in UserIds |-> IF u \in Users THEN "active"
                                                     ELSE "absent"]
    /\ conversations =
         [c \in AllConvs |->
            CASE c = "c1" -> Conversation("group", "u1", DEFAULT_MAX_MEMBERS)
              [] c = "c2" -> Conversation("group", "u2", DEFAULT_MAX_MEMBERS)
              [] OTHER -> NoConversation]
    /\ upload = NoUpload
    /\ adding = [r \in Requests |-> NoRequest]

(***************************************************************************)
(* Connection lifecycle                                                    *)
(***************************************************************************)
\* set_user_online / set_user_offline: update_or_create on UserPresence
\* (the foreign key to a User row that is gone makes it raise; the error is
\* swallowed)
set_user_online(s) ==
    IF user'[s] \notin UserIds \/ user_store[user'[s]] = "absent"
    THEN presence
    ELSE [presence EXCEPT ![user'[s]] = "online"]
set_user_offline(s) ==
    IF user[s] \notin UserIds \/ user_store[user[s]] = "absent"
    THEN presence
    ELSE [presence EXCEPT ![user[s]] = "offline"]

\* clear_all_typing_indicators
clear_all_typing_indicators(s) == {t \in typing : t.user # user[s]}

\* clear_typing_indicator
clear_typing_indicator(s, c) ==
    {t \in typing : ~(t.conversation = c /\ t.user = user[s])}

\* ChatConsumer.connect; principal is scope["user"], fault is the await
\* that raises ("none": no fault)
connect(s, principal, fault) ==
    /\ sstate[s] = "Connecting"
    /\ user' = [user EXCEPT ![s] = principal]
    /\ published' = << >>
    /\ UNCHANGED <<user_groups, groups, inbox, memberships, messages,
                   reactions, reads, typing, now>>
    /\ IF ~is_authenticated(principal)
       THEN /\ fault = "none"
            /\ closeCode' = [closeCode EXCEPT ![s] = CLOSE_UNAUTHENTICATED]
            /\ sstate' = [sstate EXCEPT ![s] = "Rejected"]
            /\ sent' = << >>
            /\ UNCHANGED <<accepted, presence>>
       ELSE CASE fault = "accept" ->
                 /\ closeCode' = [closeCode EXCEPT ![s] = CLOSE_INTERNAL_ERROR]
                 /\ sstate' = [sstate EXCEPT ![s] = "Rejected"]
                 /\ sent' = << >>
                 /\ UNCHANGED <<accepted, presence>>
              [] fault = "send" ->
                 /\ accepted' = [accepted EXCEPT ![s] = TRUE]
                 /\ presence' = set_user_online(s)
                 /\ closeCode' = [closeCode EXCEPT ![s] = CLOSE_INTERNAL_ERROR]
                 /\ sstate' = [sstate EXCEPT ![s] = "Failed"]
                 /\ sent' = << >>
              [] OTHER ->
                 /\ accepted' = [accepted EXCEPT ![s] = TRUE]
                 /\ presence' = set_user_online(s)
                 /\ sstate' = [sstate EXCEPT ![s] = "Active"]
                 /\ sent' = <<Frame(s, "connection_established", principal)>>
                 /\ UNCHANGED closeCode

\* a connection whose scope["user"] is principal
Connect(s, principal, fault) ==
    /\ UNCHANGED <<pending, auth_cache, user_store, conversations, upload, adding>>
    /\ last' = [kind |-> "connect", session |-> s, fault |-> fault]
    /\ connect(s, principal, fault)

\* ChatConsumer.disconnect; fault = "discard": a group_discard raises after
\* the groups in done were left
Disconnect(s, fault, done) ==
    /\ sstate[s] \in {"Active", "Failed", "Rejected"}
    /\ UNCHANGED <<pending, auth_cache, user_store, conversations, upload, adding>>
    /\ sstate' = [sstate EXCEPT ![s] = "Closed"]
    /\ inbox' = [inbox EXCEPT ![s] = << >>]
    /\ last' = [kind |-> "disconnect", session |-> s, fault |-> fault]
    /\ sent' = << >>
    /\ published' = << >>
    /\ UNCHANGED <<user, accepted, closeCode, user_groups, memberships,
                   messages, reactions, reads, now>>
    /\ IF ~HasUserGroups(s)
       THEN \* AttributeError on self.user_groups, caught by the handler
            /\ fault = "none" /\ done = {}
            /\ UNCHANGED <<groups, presence, typing>>
       ELSE IF fault = "discard"
       THEN /\ done \subseteq user_groups[s] /\ done # user_groups[s]
            /\ groups' = [g \in GroupNames |->
                            IF g \in done THEN groups[g] \ {s} ELSE groups[g]]
            /\ UNCHANGED <<presence, typing>>
       ELSE /\ done = user_groups[s]
            /\ groups' = [g \in GroupNames |->
                            IF g \in done THEN groups[g] \ {s} ELSE groups[g]]
            /\ presence' = set_user_offline(s)
            /\ typing' = clear_all_typing_indicators(s)

(***************************************************************************)
(* Inbound frames                                                          *)
(***************************************************************************)
Data(c, body, mid, r) ==
    [conversation_id |-> c, content |-> body, message_id |-> mid,
     reaction_type |-> r]

\* a handler that answers with one error frame and does nothing else
Reject(s, message) ==
    /\ sent' = send_error(s, message)
    /\ published' = << >>
    /\ UNCHANGED <<user_groups, groups, inbox, messages, reactions, typing>>

\* a handler that returns without doing anything
SilentReturn ==
    /\ sent' = << >>
    /\ published' = << >>
    /\ UNCHANGED <<user_groups, groups, inbox, messages, reactions, typing>>

\* handle_ping
handle_ping(s, data) ==
    /\ sent' = <<Frame(s, "pong", now)>>
    /\ published' = << >>
    /\ UNCHANGED <<user_groups, groups, inbox, messages, reactions, typing>>

\* handle_join_conversation
handle_join_conversation(s, data) ==
    LET conversation_id == data.conversation_id
        group_name == GroupName(conversation_id)
    IN  IF conversation_id = NoConv
        THEN Reject(s, "conversation_id is required")
        ELSE IF ~check_conversation_membership(s, conversation_id)
        THEN Reject(s, "You are not a member of this conversation")
        ELSE /\ groups' = [groups EXCEPT ![group_name] = @ \cup {s}]
             /\ user_groups' = [user_groups EXCEPT ![s] = @ \cup {group_name}]
             /\ sent' = <<Frame(s, "conversation_joined", conversation_id)>>
             /\ published' = << >>
             /\ UNCHANGED <<inbox, messages, reactions, typing>>

\* serialize_message
serialize_message(id, m) ==
    [id |-> id, conversation_id |-> m.conversation, sender |-> m.sender,
     content |-> m.content, timestamp |-> m.timestamp,
     message_type |-> m.message_type]

\* Message.objects.create(conversation=..., sender=self.user, content=...)
create_message(s, conversation_id, content) ==
    Msg(conversation_id, user[s], content, "text", now)

handle_send_message_joined_only(s, data) ==
    LET conversation_id == data.conversation_id
        content == strip(data.content)
        group_name == GroupName(conversation_id)
        message == create_message(s, conversation_id, content)
        ev == [type |-> "new_message",
               message |-> serialize_message(Len(messages) + 1, message)]
    IN  IF conversation_id = NoConv \/ content = << >>
        THEN Reject(s, "conversation_id and content are required")
        ELSE IF \/ ~check_conversation_membership(s, conversation_id)
                \/ group_name \notin user_groups[s]
        THEN Reject(s, "You are not a member of this conversation")
        ELSE /\ Len(messages) < MaxMsgs
             /\ GroupHasRoom(group_name)
             /\ messages' = Append(messages, message)
             /\ typing' = clear_typing_indicator(s, conversation_id)
             /\ inbox' = group_deliver(group_name, ev)
             /\ published' = <<[group |-> group_name, event |-> ev]>>
             /\ sent' = << >>
             /\ UNCHANGED <<user_groups, groups, reactions>>

\* handle_send_message
handle_send_message(s, data) ==
    LET conversation_id == data.conversation_id
        content == strip(data.content)
        group_name == GroupName(conversation_id)
        message == create_message(s, conversation_id, content)
        ev == [type |-> "new_message",
               message |-> serialize_message(Len(messages) + 1, message)]
    IN  IF conversation_id = NoConv \/ content = << >>
        THEN Reject(s, "conversation_id and content are required")
        ELSE IF ~check_conversation_membership(s, conversation_id)
        THEN Reject(s, "You are not a member of this conversation")
        ELSE /\ Len(messages) < MaxMsgs
             /\ GroupHasRoom(group_name)
             /\ messages' = Append(messages, message)
             /\ typing' = clear_typing_indicator(s, conversation_id)
             /\ inbox' = group_deliver(group_name, ev)
             /\ published' = <<[group |-> group_name, event |-> ev]>>
             /\ sent' = << >>
             /\ UNCHANGED <<user_groups, groups, reactions>>

\* set_typing_indicator: update_or_create on (conversation, user)
set_typing_indicator(s, c) ==
    typing \cup {[conversation |-> c, user |-> user[s]]}

typing_event(s, c, is_typing) ==
    [type |-> "typing_update", user_id |-> user[s], conversation_id |-> c,
     is_typing |-> is_typing]

\* handle_typing_start
handle_typing_start(s, data) ==
    LET conversation_id == data.conversation_id
        group_name == GroupName(conversation_id)
        ev == typing_event(s, conversation_id, TRUE)
    IN  IF conversation_id = NoConv
        THEN SilentReturn
        ELSE IF ~check_conversation_membership(s, conversation_id)
        THEN SilentReturn
        ELSE /\ GroupHasRoom(group_name)
             /\ typing' = set_typing_indicator(s, conversation_id)
             /\ inbox' = group_deliver(group_name, ev)
             /\ published' = <<[group |-> group_name, event |-> ev]>>
             /\ sent' = << >>
             /\ UNCHANGED <<user_groups, groups, messages, reactions>>

\* handle_typing_stop
handle_typing_stop(s, data) ==
    LET conversation_id == data.conversation_id
        group_name == GroupName(conversation_id)
        ev == typing_event(s, conversation_id, FALSE)
    IN  IF conversation_id = NoConv
        THEN SilentReturn
        ELSE /\ GroupHasRoom(group_name)
             /\ typing' = clear_typing_indicator(s, conversation_id)
             /\ inbox' = group_deliver(group_name, ev)
             /\ published' = <<[group |-> group_name, event |-> ev]>>
             /\ sent' = << >>
             /\ UNCHANGED <<user_groups, groups, messages, reactions>>

check_delete_permission_no_system_rule(s, message, membership) ==
    LET current_time == now
        time_limit == current_time - DELETE_WINDOW
    IN  IF FALSE
        THEN [can_delete |-> FALSE,
              error |-> "System messages cannot be deleted"]
        ELSE IF message.sender = user[s]
        THEN IF message.timestamp > time_limit
             THEN [can_delete |-> TRUE, delete_reason |-> "deleted by author"]
             ELSE [can_delete |-> FALSE,
                   error |-> "You can only delete your own messages within 24 hours of posting"]
        ELSE IF membership.role = "admin"
        THEN [can_delete |-> TRUE, delete_reason |-> "deleted by admin"]
        ELSE [can_delete |-> FALSE,
              error |-> "You can only delete your own messages"]

check_delete_permission_inclusive(s, message, membership) ==
    LET current_time == now
        time_limit == current_time - DELETE_WINDOW
    IN  IF message.message_type = "system"
        THEN [can_delete |-> FALSE,
              error |-> "System messages cannot be deleted"]
        ELSE IF message.sender = user[s]
        THEN IF message.timestamp >= time_limit
             THEN [can_delete |-> TRUE, delete_reason |-> "deleted by author"]
             ELSE [can_delete |-> FALSE,
                   error |-> "You can only delete your own messages within 24 hours of posting"]
        ELSE IF membership.role = "admin"
        THEN [can_delete |-> TRUE, delete_reason |-> "deleted by admin"]
        ELSE [can_delete |-> FALSE,
              error |-> "You can only delete your own messages"]

\* check_delete_permission
check_delete_permission(s, message, membership) ==
    LET current_time == now
        time_limit == current_time - DELETE_WINDOW
    IN  IF message.message_type = "system"
        THEN [can_delete |-> FALSE,
              error |-> "System messages cannot be deleted"]
        ELSE IF message.sender = user[s]
        THEN IF message.timestamp > time_limit
             THEN [can_delete |-> TRUE, delete_reason |-> "deleted by author"]
             ELSE [can_delete |-> FALSE,
                   error |-> "You can only delete your own messages within 24 hours of posting"]
        ELSE IF membership.role = "admin"
        THEN [can_delete |-> TRUE, delete_reason |-> "deleted by admin"]
        ELSE [can_delete |-> FALSE,
              error |-> "You can only delete your own messages"]

\* delete_message: the result dictionary, 'message' being the saved row
delete_message(s, message_id) ==
    IF message_id \notin MessageIds
    THEN [success |-> FALSE, error |-> "Message not found"]
    ELSE LET message == messages[message_id]
             found == ActiveMembership(user[s], message.conversation)
         IN  IF found = {}
             THEN [success |-> FALSE,
                   error |-> "You are not a member of this conversation"]
             ELSE LET membership == CHOOSE m \in found : TRUE
                      permission_check ==
                          check_delete_permission(s, message, membership)
                  IN  IF ~permission_check.can_delete
                      THEN [success |-> FALSE,
                            error |-> permission_check.error]
                      ELSE [success |-> TRUE,
                            message_id |-> message_id,
                            conversation_id |-> message.conversation,
                            new_content |-> Sentinel(permission_check.delete_reason),
                            deleted_at |-> now,
                            deleted_by |-> user[s],
                            delete_reason |-> permission_check.delete_reason,
                            message |-> [message EXCEPT
                                !.content = Sentinel(permission_check.delete_reason),
                                !.is_edited = TRUE,
                                !.edited_at = now]]

\* broadcast_message_deletion: the event sent to the group
deletion_event(result) ==
    [type |-> "message_deleted", message_id |-> result.message_id,
     conversation_id |-> result.conversation_id,
     deleted_by |-> result.deleted_by,
     delete_reason |-> result.delete_reason,
     new_content |-> result.new_content, deleted_at |-> result.deleted_at]

\* handle_delete_message
handle_delete_message(s, data) ==
    LET message_id == data.message_id
        result == delete_message(s, message_id)
        group_name == GroupName(result.conversation_id)
        ev == deletion_event(result)
    IN  IF message_id = NoId
        THEN Reject(s, "message_id is required for deletion")
        ELSE IF ~result.success
        THEN Reject(s, result.error)
        ELSE /\ GroupHasRoom(group_name)
             /\ messages' = [messages EXCEPT ![message_id] = result.message]
             /\ sent' = <<Frame(s, "message_delete_success",
                                [message_id |-> message_id,
                                 new_content |-> result.new_content,
                                 deleted_at |-> result.deleted_at])>>
             /\ inbox' = group_deliver(group_name, ev)
             /\ published' = <<[group |-> group_name, event |-> ev]>>
             /\ UNCHANGED <<user_groups, groups, reactions, typing>>

toggle_message_reaction_keep_created_at(s, message_id, reaction_type) ==
    IF message_id \notin MessageIds
    THEN [success |-> FALSE, error |-> "Message not found"]
    ELSE LET message == messages[message_id]
             mine == {r \in reactions :
                        r.message = message_id /\ r.user = user[s]}
             fresh == [message |-> message_id, user |-> user[s],
                       reaction_type |-> reaction_type, created_at |-> now]
             ok(action, reaction_data, rows) ==
                 [success |-> TRUE, action |-> action,
                  message_id |-> message_id,
                  conversation_id |-> message.conversation,
                  reaction_data |-> reaction_data,
                  user_id |-> user[s], rows |-> rows]
             data_of(r) == <<r.user, r.reaction_type, r.created_at>>
         IN  IF ActiveMembership(user[s], message.conversation) = {}
             THEN [success |-> FALSE,
                   error |-> "You are not a member of this conversation"]
             ELSE IF Cardinality(mine) > 1
             THEN \* get_or_create raises MultipleObjectsReturned
                  [success |-> FALSE, error |-> "Database error occurred"]
             ELSE IF mine = {}
             THEN ok("added", data_of(fresh), reactions \cup {fresh})
             ELSE LET reaction == CHOOSE r \in mine : TRUE
                  IN  IF reaction.reaction_type = reaction_type
                      THEN ok("removed", << >>, reactions \ {reaction})
                      ELSE LET kept == [fresh EXCEPT
                                          !.created_at = reaction.created_at]
                           IN  ok("updated", data_of(kept),
                                  (reactions \ {reaction}) \cup {kept})

\* toggle_message_reaction: the result dictionary, 'rows' being the
\* MessageReaction table after the transaction
toggle_message_reaction(s, message_id, reaction_type) ==
    IF message_id \notin MessageIds
    THEN [success |-> FALSE, error |-> "Message not found"]
    ELSE LET message == messages[message_id]
             mine == {r \in reactions :
                        r.message = message_id /\ r.user = user[s]}
             fresh == [message |-> message_id, user |-> user[s],
                       reaction_type |-> reaction_type, created_at |-> now]
             ok(action, reaction_data, rows) ==
                 [success |-> TRUE, action |-> action,
                  message_id |-> message_id,
                  conversation_id |-> message.conversation,
                  reaction_data |-> reaction_data,
                  user_id |-> user[s], rows |-> rows]
             data_of(r) == <<r.user, r.reaction_type, r.created_at>>
         IN  IF ActiveMembership(user[s], message.conversation) = {}
             THEN [success |-> FALSE,
                   error |-> "You are not a member of this conversation"]
             ELSE IF Cardinality(mine) > 1
             THEN \* get_or_create raises MultipleObjectsReturned
                  [success |-> FALSE, error |-> "Database error occurred"]
             ELSE IF mine = {}
             THEN ok("added", data_of(fresh), reactions \cup {fresh})
             ELSE LET reaction == CHOOSE r \in mine : TRUE
                  IN  IF reaction.reaction_type = reaction_type
                      THEN ok("removed", << >>, reactions \ {reaction})
                      ELSE ok("updated", data_of(fresh),
                              (reactions \ {reaction}) \cup {fresh})

\* broadcast_reaction_update: the event sent to the group
reaction_event(result) ==
    [type |-> "reaction_update", message_id |-> result.message_id,
     conversation_id |-> result.conversation_id, action |-> result.action,
     reaction_data |-> result.reaction_data, user_id |-> result.user_id]

\* handle_react_to_message
handle_react_to_message(s, data) ==
    LET message_id == data.message_id
        reaction_type == data.reaction_type
        result == toggle_message_reaction(s, message_id, reaction_type)
        group_name == GroupName(result.conversation_id)
        ev == reaction_event(result)
    IN  IF message_id = NoId \/ reaction_type = ""
        THEN Reject(s, "message_id and reaction_type are required")
        ELSE IF reaction_type \notin valid_reactions
        THEN Reject(s, "Invalid reaction type")
        ELSE IF ~result.success
        THEN Reject(s, result.error)
        ELSE /\ GroupHasRoom(group_name)
             /\ reactions' = result.rows
             /\ sent' = <<Frame(s, "reaction_success",
                                [message_id |-> message_id,
                                 action |-> result.action,
                                 reaction_type |-> reaction_type,
                                 reaction_data |-> result.reaction_data])>>
             /\ inbox' = group_deliver(group_name, ev)
             /\ published' = <<[group |-> group_name, event |-> ev]>>
             /\ UNCHANGED <<user_groups, groups, messages, typing>>

\* the 'handlers' dictionary of receive
handlers == {"join_conversation", "send_message", "typing_start",
             "typing_stop", "ping", "delete_message", "react_to_message"}

\* ChatConsumer.receive for a decodable frame {type, data}
Receive(s, type, data) ==
    /\ sstate[s] = "Active"
    /\ pending[s] = NoPending
    /\ UNCHANGED <<pending, auth_cache, user_store, conversations, upload, adding>>
    /\ last' = [kind |-> "receive", session |-> s, type |-> type,
                data |-> data]
    /\ UNCHANGED <<sstate, user, accepted, closeCode, memberships, reads,
                   presence, now>>
    /\ CASE type = "join_conversation" -> handle_join_conversation(s, data)
         [] type = "send_message" -> handle_send_message(s, data)
         [] type = "typing_start" -> handle_typing_start(s, data)
         [] type = "typing_stop" -> handle_typing_stop(s, data)
         [] type = "ping" -> handle_ping(s, data)
         [] type = "delete_message" -> handle_delete_message(s, data)
         [] type = "react_to_message" -> handle_react_to_message(s, data)
         [] OTHER -> Reject(s, <<"Unknown message type: ", type>>)

\* the database calls of a handler that can raise, by frame type
FaultPoints(type) ==
    CASE type = "send_message" ->
            {"check_conversation_membership", "create_message",
             "clear_typing_indicator"}
      [] type = "delete_message" -> {"delete_message"}
      [] type = "react_to_message" -> {"toggle_message_reaction"}
      [] OTHER -> {}

\* ChatConsumer.receive for a frame whose handler reaches the database call
\* named by fault, which raises: check_conversation_membership has no
\* handler of its own, so the exception ends in receive's 'except
\* Exception'; create_message returns None; clear_typing_indicator swallows
\* the exception and the send goes on; delete_message and
\* toggle_message_reaction return the failure result
ReceiveFault(s, type, data, fault) ==
    LET conversation_id == data.conversation_id
        content == strip(data.content)
        group_name == GroupName(conversation_id)
        message == create_message(s, conversation_id, content)
        ev == [type |-> "new_message",
               message |-> serialize_message(Len(messages) + 1, message)]
    IN  /\ sstate[s] = "Active"
        /\ pending[s] = NoPending
        /\ fault \in FaultPoints(type)
        /\ UNCHANGED <<pending, auth_cache, user_store, conversations, upload, adding>>
        /\ last' = [kind |-> "receive_fault", session |-> s, type |-> type,
                    data |-> data, fault |-> fault]
        /\ UNCHANGED <<sstate, user, accepted, closeCode, memberships, reads,
                       presence, now>>
        /\ CASE type = "send_message" ->
                  /\ conversation_id # NoConv /\ content # << >>
                  /\ IF fault = "check_conversation_membership"
                     THEN Reject(s, "Internal server error")
                     ELSE IF fault = "create_message"
                     THEN /\ check_conversation_membership(s, conversation_id)
                          /\ Reject(s, "Failed to create message")
                     ELSE   /\ check_conversation_membership(s, conversation_id)
                            /\ Len(messages) < MaxMsgs
                            /\ GroupHasRoom(group_name)
                            /\ messages' = Append(messages, message)
                            /\ inbox' = group_deliver(group_name, ev)
                            /\ published' =
                                 <<[group |-> group_name, event |-> ev]>>
                            /\ sent' = << >>
                            /\ UNCHANGED <<user_groups, groups, reactions,
                                           typing>>
             [] type = "delete_message" ->
                  /\ data.message_id # NoId
                  /\ Reject(s, "Database error occurred")
             [] type = "react_to_message" ->
                  /\ data.message_id # NoId
                  /\ data.reaction_type \in valid_reactions
                  /\ Reject(s, "Database error occurred")

\* ChatConsumer.receive for text that json.loads cannot decode
ReceiveMalformed(s) ==
    /\ sstate[s] = "Active"
    /\ pending[s] = NoPending
    /\ UNCHANGED <<pending, auth_cache, user_store, conversations, upload, adding>>
    /\ last' = [kind |-> "receive", session |-> s, type |-> "malformed",
                data |-> Data(NoConv, << >>, NoId, "")]
    /\ UNCHANGED <<sstate, user, accepted, closeCode, memberships, reads,
                   presence, now>>
    /\ Reject(s, "Invalid JSON format")

NoData == Data(NoConv, << >>, NoId, "")
ConvIds == Convs \cup {NoConv}
MsgIdInputs == 0..MaxMsgs
ReactionInputs == {"", "thumbs_up", "heart", "bogus"}

ReceiveJoinConversation(s, c) ==
    Receive(s, "join_conversation", Data(c, << >>, NoId, ""))
ReceiveSendMessage(s, c, body) ==
    Receive(s, "send_message", Data(c, body, NoId, ""))
ReceiveTypingStart(s, c) ==
    Receive(s, "typing_start", Data(c, << >>, NoId, ""))
ReceiveTypingStop(s, c) ==
    Receive(s, "typing_stop", Data(c, << >>, NoId, ""))
ReceivePing(s) == Receive(s, "ping", NoData)
ReceiveDeleteMessage(s, mid) ==
    Receive(s, "delete_message", Data(NoConv, << >>, mid, ""))
ReceiveReactToMessage(s, mid, r) ==
    Receive(s, "react_to_message", Data(NoConv, << >>, mid, r))
ReceiveMarkRead(s, c) ==
    Receive(s, "mark_read", Data(c, << >>, NoId, ""))
ReceiveUnknown(s) == Receive(s, "bogus", NoData)

(***************************************************************************)
(* A reaction request whose database transaction runs while the other      *)
(* session's transaction runs: the lookup of get_or_create and the write   *)
(* that follows are separate steps                                         *)
(***************************************************************************)
\* MessageReaction.objects.filter(message=mid, user=u)
reaction_rows(u, mid) == {x \in reactions : x.message = mid /\ x.user = u}

\* receive of react_to_message up to the SELECT of get_or_create; a request
\* that is refused, or whose SELECT raises, completes in this step
ReactBegin(s, data) ==
    LET mid == data.message_id
        r == data.reaction_type
        refused == \/ mid \notin MessageIds
                   \/ r \notin valid_reactions
                   \/ ActiveMembership(user[s], messages[mid].conversation) = {}
                   \/ Cardinality(reaction_rows(user[s], mid)) > 1
    IN  IF refused
        THEN Receive(s, "react_to_message", data)
        ELSE /\ sstate[s] = "Active"
             /\ pending[s] = NoPending
             /\ pending' = [pending EXCEPT ![s] =
                              [op |-> "react", message_id |-> mid,
                               reaction_type |-> r,
                               found |-> reaction_rows(user[s], mid),
                               row |-> reaction_rows(user[s], mid)]]
             /\ last' = [kind |-> "react_begin", session |-> s,
                         message_id |-> mid, reaction_type |-> r]
             /\ sent' = << >>
             /\ published' = << >>
             /\ UNCHANGED <<sstate, user, accepted, closeCode, user_groups,
                            groups, inbox, memberships, messages, reactions,
                            reads, typing, presence, now, auth_cache,
                            user_store, conversations, upload, adding>>

\* the rest of toggle_message_reaction for the request session s has open:
\* found is what the SELECT returned, row is that row as it is in the table
\* now (empty when it was deleted since)
finish_reaction(s) ==
    LET p == pending[s]
        mid == p.message_id
        r == p.reaction_type
        fresh == [message |-> mid, user |-> user[s], reaction_type |-> r,
                  created_at |-> now]
        \* rows that unique_together (message, user, reaction_type) forbids
        \* next to fresh
        clash == {x \in reaction_rows(user[s], mid) : x.reaction_type = r}
        ok(action, reaction_data, gone, made) ==
            [success |-> TRUE, action |-> action, message_id |-> mid,
             conversation_id |-> messages[mid].conversation,
             reaction_data |-> reaction_data, user_id |-> user[s],
             rows |-> (reactions \ gone) \cup made,
             gone |-> gone, made |-> made]
        failed == [success |-> FALSE, error |-> "Database error occurred"]
        data_of(x) == <<x.user, x.reaction_type, x.created_at>>
    IN  IF p.found = {}
        THEN IF clash = {}
             THEN ok("added", data_of(fresh), {}, {fresh})
             ELSE \* IntegrityError on INSERT: get_or_create reads again
                  IF Cardinality(reaction_rows(user[s], mid)) > 1
                  THEN failed
                  ELSE ok("removed", << >>, clash, {})
        ELSE LET seen == CHOOSE x \in p.found : TRUE
             IN  IF seen.reaction_type = r
                 THEN ok("removed", << >>, p.row, {})
                 ELSE IF clash \ p.row # {}
                 THEN failed
                 ELSE ok("updated", data_of(fresh), p.row, {fresh})

\* the write of the open request and the rest of handle_react_to_message
ReactFinish(s) ==
    LET result == finish_reaction(s)
        group_name == GroupName(result.conversation_id)
        ev == reaction_event(result)
    IN  /\ sstate[s] = "Active"
        /\ pending[s].op = "react"
        /\ last' = [kind |-> "react_finish", session |-> s,
                    message_id |-> pending[s].message_id,
                    reaction_type |-> pending[s].reaction_type]
        /\ UNCHANGED <<sstate, user, accepted, closeCode, user_groups,
                       groups, memberships, messages, reads, typing,
                       presence, now, auth_cache, user_store, conversations, upload, adding>>
        /\ IF ~result.success
           THEN /\ sent' = send_error(s, result.error)
                /\ published' = << >>
                /\ pending' = [pending EXCEPT ![s] = NoPending]
                /\ UNCHANGED <<reactions, inbox>>
           ELSE /\ GroupHasRoom(group_name)
                /\ reactions' = result.rows
                /\ pending' =
                     [t \in Sessions |->
                        IF t = s THEN NoPending
                        ELSE IF /\ pending[t].op = "react"
                                /\ pending[t].row # {}
                                /\ pending[t].row \subseteq result.gone
                        THEN [pending[t] EXCEPT !.row = result.made]
                        ELSE pending[t]]
                /\ sent' = <<Frame(s, "reaction_success",
                                   [message_id |-> pending[s].message_id,
                                    action |-> result.action,
                                    reaction_type |-> pending[s].reaction_type,
                                    reaction_data |-> result.reaction_data])>>
                /\ inbox' = group_deliver(group_name, ev)
                /\ published' = <<[group |-> group_name, event |-> ev]>>

(***************************************************************************)
(* handle_mark_read. The handlers dictionary of receive has no entry for   *)
(* it, so the actions below are the handler called with the data of a      *)
(* mark_read frame; the SELECTs of mark_messages_read and its writes are   *)
(* separate steps, as for a reaction request.                              *)
(***************************************************************************)
MessageIdLists == SUBSET (1..(MaxMsgs + 1))

MarkReadData(c, message_ids) ==
    [conversation_id |-> c, message_ids |-> message_ids]

\* mark_messages_read: the rows of messages_to_mark for membership row
\* membership of user[s] in conversation c
messages_to_mark(s, c, message_ids, membership) ==
    LET mine(mid) == messages[mid].sender = user[s]
        messages_query ==
            IF message_ids # {}
            THEN {mid \in MessageIds \cap message_ids :
                    messages[mid].conversation = c /\ ~mine(mid)}
            ELSE IF membership.last_read_at # -1
            THEN {mid \in MessageIds :
                    /\ messages[mid].conversation = c
                    /\ messages[mid].timestamp > membership.last_read_at
                    /\ ~mine(mid)}
            ELSE {mid \in MessageIds :
                    messages[mid].conversation = c /\ ~mine(mid)}
        existing_reads ==
            {x.message : x \in {y \in reads : /\ y.message \in messages_query
                                              /\ y.user = user[s]}}
    IN  messages_query \ existing_reads

bulk_create_no_unique(rows, new_reads) == rows \cup new_reads

\* MessageRead.objects.bulk_create(new_reads, ignore_conflicts=True) under
\* unique_together (message, user)
bulk_create(rows, new_reads) ==
    rows \cup {x \in new_reads :
                 ~\E y \in rows : y.message = x.message /\ y.user = x.user}

\* handle_mark_read up to the SELECT of messages_to_mark; a request that is
\* refused completes in this step
MarkReadBegin(s, data) ==
    LET c == data.conversation_id
        refusal == IF c = NoConv THEN "conversation_id is required"
                   ELSE IF ~check_conversation_membership(s, c)
                   THEN "You are not a member of this conversation"
                   ELSE ""
        membership == CHOOSE m \in ActiveMembership(user[s], c) : TRUE
    IN  /\ sstate[s] = "Active"
        /\ pending[s] = NoPending
        /\ published' = << >>
        /\ UNCHANGED <<sstate, user, accepted, closeCode, user_groups,
                       groups, inbox, memberships, messages, reactions,
                       reads, typing, presence, now, auth_cache,
                       user_store, conversations, upload, adding>>
        /\ IF refusal # ""
           THEN /\ sent' = send_error(s, refusal)
                /\ last' = [kind |-> "mark_read_refused", session |-> s,
                            data |-> data]
                /\ UNCHANGED pending
           ELSE /\ sent' = << >>
                /\ last' = [kind |-> "mark_read_begin", session |-> s,
                            data |-> data]
                /\ pending' = [pending EXCEPT ![s] =
                      [op |-> "mark_read", conversation_id |-> c,
                       message_ids |-> data.message_ids,
                       current_time |-> now,
                       membership |-> membership,
                       to_mark |-> messages_to_mark(s, c, data.message_ids,
                                                    membership)]]

\* broadcast_read_receipts: the event sent to the group
read_event(result) ==
    IF Cardinality(result.marked_message_ids) = 1
    THEN [type |-> "message_read",
          message_id |-> CHOOSE mid \in result.marked_message_ids : TRUE,
          conversation_id |-> result.conversation_id,
          reader_id |-> result.reader_id, read_at |-> result.read_at]
    ELSE [type |-> "conversation_read",
          conversation_id |-> result.conversation_id,
          reader_id |-> result.reader_id, read_at |-> result.read_at,
          messages_marked_count |-> result.messages_marked,
          marked_message_ids |-> result.marked_message_ids]

\* the writes of mark_messages_read for the request session s has open, and
\* the rest of handle_mark_read
MarkReadFinish(s) ==
    LET p == pending[s]
        new_reads == {[message |-> mid, user |-> user[s],
                       read_at |-> p.current_time] : mid \in p.to_mark}
        result == [success |-> TRUE,
                   conversation_id |-> p.conversation_id,
                   messages_marked |-> Cardinality(new_reads),
                   read_at |-> p.current_time,
                   marked_message_ids |-> p.to_mark,
                   reader_id |-> user[s]]
        group_name == GroupName(p.conversation_id)
        ev == read_event(result)
    IN  /\ sstate[s] = "Active"
        /\ pending[s].op = "mark_read"
        /\ GroupHasRoom(group_name)
        /\ pending' = [pending EXCEPT ![s] = NoPending]
        /\ reads' = bulk_create(reads, new_reads)
        \* membership.save() writes every field of the row read before
        /\ memberships' =
             {m \in memberships : ~(/\ m.user = p.membership.user
                                    /\ m.conversation = p.conversation_id)}
             \cup {[p.membership EXCEPT !.last_read_at = p.current_time]}
        /\ last' = [kind |-> "mark_read", session |-> s,
                    conversation_id |-> p.conversation_id,
                    message_ids |-> p.message_ids,
                    read_at |-> p.current_time,
                    marked_message_ids |-> p.to_mark]
        /\ sent' = <<Frame(s, "read_success",
                           [conversation_id |-> p.conversation_id,
                            messages_marked |-> result.messages_marked,
                            read_at |-> result.read_at])>>
        /\ inbox' = group_deliver(group_name, ev)
        /\ published' = <<[group |-> group_name, event |-> ev]>>
        /\ UNCHANGED <<sstate, user, accepted, closeCode, user_groups,
                       groups, messages, reactions, typing, presence, now,
                       auth_cache, user_store, conversations, upload, adding>>

(***************************************************************************)
(* Outbound: group message receivers                                       *)
(***************************************************************************)
recv_new_message_not_to_sender(s, event) ==
    IF event.message.sender # user[s]
    THEN <<Frame(s, "new_message", event.message)>> ELSE << >>

\* new_message
recv_new_message(s, event) == <<Frame(s, "new_message", event.message)>>

recv_message_deleted_unfiltered(s, event) ==
    <<Frame(s, "message_deleted",
            [message_id |-> event.message_id,
             conversation_id |-> event.conversation_id,
             deleted_by |-> event.deleted_by,
             delete_reason |-> event.delete_reason,
             new_content |-> event.new_content,
             deleted_at |-> event.deleted_at])>>

\* message_deleted
recv_message_deleted(s, event) ==
    IF event.deleted_by # user[s]
    THEN <<Frame(s, "message_deleted",
                 [message_id |-> event.message_id,
                  conversation_id |-> event.conversation_id,
                  deleted_by |-> event.deleted_by,
                  delete_reason |-> event.delete_reason,
                  new_content |-> event.new_content,
                  deleted_at |-> event.deleted_at])>>
    ELSE << >>

\* reaction_update
recv_reaction_update(s, event) ==
    IF event.user_id # user[s]
    THEN <<Frame(s, "reaction_update",
                 [message_id |-> event.message_id,
                  conversation_id |-> event.conversation_id,
                  action |-> event.action,
                  reaction_data |-> event.reaction_data,
                  user_id |-> event.user_id])>>
    ELSE << >>

\* typing_update
recv_typing_update(s, event) ==
    IF event.user_id # user[s]
    THEN <<Frame(s, "typing_update",
                 [user_id |-> event.user_id,
                  conversation_id |-> event.conversation_id,
                  is_typing |-> event.is_typing])>>
    ELSE << >>

\* should_receive_read_receipt; NoUserId as message_sender_id stands for None
should_receive_read_receipt(s, conversation_id, message_sender_id) ==
    LET found == ActiveMembership(user[s], conversation_id)
    IN  IF found = {} THEN FALSE
        ELSE IF (CHOOSE m \in found : TRUE).role = "admin" THEN TRUE
        ELSE IF message_sender_id # NoUserId
        THEN user[s] = message_sender_id
        ELSE TRUE

\* get_message_sender_id
get_message_sender_id(message_id) ==
    IF message_id \in MessageIds THEN messages[message_id].sender
    ELSE NoUserId

\* message_read
recv_message_read(s, event) ==
    IF /\ should_receive_read_receipt(s, event.conversation_id,
                                      get_message_sender_id(event.message_id))
       /\ event.reader_id # user[s]
    THEN <<Frame(s, "message_read",
                 [message_id |-> event.message_id,
                  conversation_id |-> event.conversation_id,
                  reader_id |-> event.reader_id,
                  read_at |-> event.read_at])>>
    ELSE << >>

\* conversation_read
recv_conversation_read(s, event) ==
    IF /\ should_receive_read_receipt(s, event.conversation_id, NoUserId)
       /\ event.reader_id # user[s]
    THEN <<Frame(s, "conversation_read",
                 [conversation_id |-> event.conversation_id,
                  reader_id |-> event.reader_id,
                  read_at |-> event.read_at,
                  messages_marked_count |-> event.messages_marked_count,
                  marked_message_ids |-> event.marked_message_ids])>>
    ELSE << >>

\* the consumer of session s takes the next event of its channel and runs
\* the receiver method named by the event's type
Deliver(s) ==
    /\ sstate[s] = "Active"
    /\ pending[s] = NoPending
    /\ UNCHANGED <<pending, auth_cache, user_store, conversations, upload, adding>>
    /\ inbox[s] # << >>
    /\ LET event == Head(inbox[s])
       IN  /\ last' = [kind |-> "deliver", session |-> s, event |-> event]
           /\ sent' = CASE event.type = "new_message" ->
                              recv_new_message(s, event)
                        [] event.type = "message_deleted" ->
                              recv_message_deleted(s, event)
                        [] event.type = "reaction_update" ->
                              recv_reaction_update(s, event)
                        [] event.type = "typing_update" ->
                              recv_typing_update(s, event)
                        [] event.type = "message_read" ->
                              recv_message_read(s, event)
                        [] event.type = "conversation_read" ->
                              recv_conversation_read(s, event)
    /\ inbox' = [inbox EXCEPT ![s] = Tail(@)]
    /\ published' = << >>
    /\ UNCHANGED <<sstate, user, accepted, closeCode, user_groups, groups,
                   memberships, messages, reactions, reads, typing,
                   presence, now>>

(***************************************************************************)
(* Token authentication of the WebSocket handshake                         *)
(***************************************************************************)
\* timeout=1800 of cache_user_auth
CACHE_TIMEOUT == 1800

TokenKinds == {"valid", "expired", "bad_signature", "malformed"}

\* the token query parameter: how jwt.decode fares on it and the user_id
\* claim of its payload (NoUserId: the payload has none)
Tokens == {[kind |-> k, user_id |-> u] :
              k \in TokenKinds, u \in UserIds \cup {NoUserId}}

\* no token query parameter
NoToken == [kind |-> "absent", user_id |-> NoUserId]

\* the call that raises when it is reached ("none": no fault)
AuthFaults == {"none", "cache_get", "store", "cache_set"}

\* django.contrib.auth.models.AnonymousUser
AnonymousUser == [id |-> Anonymous, is_active |-> FALSE]

\* jwt.decode(token, SECRET_KEY, algorithms=['HS256'])
jwt_decode(token) ==
    CASE token.kind = "malformed" ->
            [raises |-> "DecodeError", user_id |-> NoUserId]
      [] token.kind = "bad_signature" ->
            [raises |-> "InvalidSignatureError", user_id |-> NoUserId]
      [] token.kind = "expired" ->
            [raises |-> "ExpiredSignatureError", user_id |-> NoUserId]
      [] OTHER -> [raises |-> "", user_id |-> token.user_id]

\* the classes an exception is an instance of
Ancestors(exc) ==
    CASE exc = "ExpiredSignatureError" ->
            {"ExpiredSignatureError", "InvalidTokenError", "Exception"}
      [] exc = "DecodeError" ->
            {"DecodeError", "InvalidTokenError", "Exception"}
      [] exc = "InvalidSignatureError" ->
            {"InvalidSignatureError", "DecodeError", "InvalidTokenError",
             "Exception"}
      [] OTHER -> {exc, "Exception"}

except_clauses_jwt_only == {"ExpiredSignatureError", "InvalidTokenError"}

\* the except clauses around the body of get_user_from_token_with_cache
except_clauses == {"ExpiredSignatureError", "InvalidTokenError", "Exception"}

cache_user_no_ttl(uid, timeout) ==
    [id |-> uid, is_active |-> user_store[uid] = "active", timeout |-> 0]

\* AuthCacheManager.cache_user: the entry stored under auth_user:<id>
cache_user(uid, timeout) ==
    [id |-> uid, is_active |-> user_store[uid] = "active",
     timeout |-> timeout]

\* get_user_from_token_with_cache: exc is the exception raised inside the
\* try block ("" when none), raised tells whether it leaves the function,
\* result is the returned user, cache the cache afterwards
get_user_from_token_with_cache(token, fault) ==
    LET payload == jwt_decode(token)
        user_id == payload.user_id
        hit == auth_cache[user_id] # NoEntry
        exc == IF payload.raises # "" THEN payload.raises
               ELSE IF user_id = NoUserId THEN ""
               ELSE IF fault = "cache_get" THEN "ConnectionError"
               ELSE IF hit THEN ""
               ELSE IF fault = "store" THEN "OperationalError"
               ELSE IF user_store[user_id] = "absent" THEN ""
               ELSE IF fault = "cache_set" THEN "ConnectionError"
               ELSE ""
        returned ==
               IF user_id = NoUserId THEN AnonymousUser
               ELSE IF hit
               THEN [id |-> auth_cache[user_id].id,
                     is_active |-> auth_cache[user_id].is_active]
               ELSE IF user_store[user_id] = "absent" THEN AnonymousUser
               ELSE [id |-> user_id,
                     is_active |-> user_store[user_id] = "active"]
        written == /\ exc = "" /\ user_id # NoUserId /\ ~hit
                   /\ user_store[user_id] # "absent"
        \* User.objects.get was called
        queried == /\ payload.raises = "" /\ user_id # NoUserId
                   /\ fault # "cache_get" /\ ~hit
    IN  [exc |-> exc,
         store_read |-> queried,
         cache_set |-> IF written THEN {user_id} ELSE {},
         raised |-> exc # "" /\ Ancestors(exc) \cap except_clauses = {},
         result |-> IF exc # "" THEN AnonymousUser ELSE returned,
         cache |-> IF written
                   THEN [auth_cache EXCEPT
                           ![user_id] = cache_user(user_id, CACHE_TIMEOUT)]
                   ELSE auth_cache]

\* JWTAuthMiddleware.__call__ for a websocket scope: the user it stores in
\* scope['user'] is recorded in last.result
JWTAuthMiddleware(token, fault) ==
    LET call == IF token = NoToken
                THEN [exc |-> "", raised |-> FALSE, result |-> AnonymousUser,
                      cache |-> auth_cache, store_read |-> FALSE,
                      cache_set |-> {}]
                ELSE get_user_from_token_with_cache(token, fault)
    IN  /\ token = NoToken => fault = "none"
        /\ auth_cache' = call.cache
        /\ last' = [kind |-> "authenticate", token |-> token,
                    fault |-> fault, exc |-> call.exc,
                    raised |-> call.raised, result |-> call.result,
                    store_read |-> call.store_read,
                    cache_set |-> call.cache_set]
        /\ sent' = << >>
        /\ published' = << >>
        /\ UNCHANGED <<sstate, user, accepted, closeCode, user_groups,
                       groups, inbox, memberships, messages, reactions,
                       reads, typing, presence, now, pending, user_store, conversations, upload, adding>>

\* the handshake of session s: JWTAuthMiddleware.__call__ stores the user
\* in scope['user'], then ChatConsumer.connect runs on that scope
Handshake(s, token, fault, connect_fault) ==
    LET call == IF token = NoToken
                THEN [exc |-> "", raised |-> FALSE, result |-> AnonymousUser,
                      cache |-> auth_cache, store_read |-> FALSE,
                      cache_set |-> {}]
                ELSE get_user_from_token_with_cache(token, fault)
    IN  /\ token = NoToken => fault = "none"
        /\ ~call.raised
        /\ auth_cache' = call.cache
        /\ last' = [kind |-> "handshake", session |-> s, token |-> token,
                    fault |-> fault, exc |-> call.exc,
                    result |-> call.result, connect_fault |-> connect_fault]
        /\ UNCHANGED <<pending, user_store, conversations, upload, adding>>
        /\ connect(s, call.result.id, connect_fault)

\* authentication.views.login of an active user: caches the user
login(u) ==
    /\ user_store[u] = "active"
    /\ auth_cache' = [auth_cache EXCEPT ![u] = cache_user(u, CACHE_TIMEOUT)]
    /\ last' = [kind |-> "login", user |-> u]
    /\ sent' = << >>
    /\ published' = << >>
    /\ UNCHANGED <<sstate, user, accepted, closeCode, user_groups,
                   groups, inbox, memberships, messages, reactions,
                   reads, typing, presence, now, pending, user_store, conversations, upload, adding>>

\* authentication.views.logout: invalidate_user_auth_cache
logout(u) ==
    /\ user_store[u] # "absent"
    /\ auth_cache' = [auth_cache EXCEPT ![u] = NoEntry]
    /\ last' = [kind |-> "logout", user |-> u]
    /\ sent' = << >>
    /\ published' = << >>
    /\ UNCHANGED <<sstate, user, accepted, closeCode, user_groups,
                   groups, inbox, memberships, messages, reactions,
                   reads, typing, presence, now, pending, user_store, conversations, upload, adding>>

\* the entry of u outlives its timeout and is dropped by the cache
cache_expire(u) ==
    /\ auth_cache[u] # NoEntry
    /\ auth_cache' = [auth_cache EXCEPT ![u] = NoEntry]
    /\ last' = [kind |-> "expire", user |-> u]
    /\ sent' = << >>
    /\ published' = << >>
    /\ UNCHANGED <<sstate, user, accepted, closeCode, user_groups,
                   groups, inbox, memberships, messages, reactions,
                   reads, typing, presence, now, pending, user_store, conversations, upload, adding>>

\* User.is_active is switched by a staff user
set_user_active(u, active) ==
    /\ user_store[u] = (IF active THEN "inactive" ELSE "active")
    /\ user_store' = [user_store EXCEPT
                        ![u] = IF active THEN "active" ELSE "inactive"]
    /\ last' = [kind |-> "set_active", user |-> u, is_active |-> active]
    /\ sent' = << >>
    /\ published' = << >>
    /\ UNCHANGED <<sstate, user, accepted, closeCode, user_groups,
                   groups, inbox, memberships, messages, reactions,
                   reads, typing, presence, now, pending, auth_cache,
                   conversations, upload, adding>>

\* the User row of u is deleted; the rows whose foreign key points to it,
\* the conversations u created included, go with it (on_delete=CASCADE).
\* Taken while no message of u or of those conversations is stored.
delete_user(u) ==
    LET gone == {c \in AllConvs : conversations[c].created_by = u}
    IN  /\ user_store[u] # "absent"
        /\ \A i \in MessageIds :
              messages[i].sender # u /\ messages[i].conversation \notin gone
        /\ user_store' = [user_store EXCEPT ![u] = "absent"]
        /\ conversations' = [c \in AllConvs |->
                               IF c \in gone THEN NoConversation
                               ELSE conversations[c]]
        /\ memberships' = {m \in memberships :
                              m.user # u /\ m.conversation \notin gone}
        /\ reactions' = {x \in reactions : x.user # u}
        /\ reads' = {x \in reads : x.user # u}
        /\ typing' = {x \in typing :
                         x.user # u /\ x.conversation \notin gone}
        /\ presence' = [presence EXCEPT ![u] = "none"]
        /\ last' = [kind |-> "delete_user", user |-> u]
        /\ sent' = << >>
        /\ published' = << >>
        /\ UNCHANGED <<sstate, user, accepted, closeCode, user_groups,
                       groups, inbox, messages, now, pending, auth_cache,
                       upload, adding>>

(***************************************************************************)
(* Environment: the clock and the REST membership endpoints                *)
(***************************************************************************)
Tick ==
    /\ now < MaxTime
    /\ UNCHANGED <<pending, auth_cache, user_store, conversations, upload, adding>>
    /\ now' = now + 1
    /\ last' = [kind |-> "tick"]
    /\ sent' = << >>
    /\ published' = << >>
    /\ UNCHANGED <<sstate, user, accepted, closeCode, user_groups, groups,
                   inbox, memberships, messages, reactions, reads, typing,
                   presence>>

\* admin.MessageAdmin: a staff user adds a Message row of any message_type
\* through the admin site; the only source of system messages
admin_add_message(u, c, type) ==
    /\ Len(messages) < MaxMsgs
    /\ UNCHANGED <<pending, auth_cache, user_store, conversations, upload, adding>>
    /\ messages' = Append(messages, Msg(c, u, <<"notice">>, type, now))
    /\ last' = [kind |-> "admin_add", user |-> u, conversation |-> c]
    /\ sent' = << >>
    /\ published' = << >>
    /\ UNCHANGED <<sstate, user, accepted, closeCode, user_groups, groups,
                   inbox, memberships, reactions, reads, typing, presence,
                   now>>

\* views.leave_conversation
leave_conversation(u, c) ==
    /\ ActiveMembership(u, c) # {}
    /\ UNCHANGED <<pending, auth_cache, user_store, conversations, upload, adding>>
    /\ memberships' = {IF m \in ActiveMembership(u, c)
                       THEN [m EXCEPT !.is_active = FALSE] ELSE m :
                       m \in memberships}
    /\ last' = [kind |-> "leave", user |-> u, conversation |-> c]
    /\ sent' = << >>
    /\ published' = << >>
    /\ UNCHANGED <<sstate, user, accepted, closeCode, user_groups, groups,
                   inbox, messages, reactions, reads, typing, presence, now>>

(***************************************************************************)
(* REST endpoints that create conversations and add members                *)
(***************************************************************************)
\* a view: nothing is written to a socket or a group, and only Conversation
\* and ConversationMembership rows may change
rest_view ==
    /\ sent' = << >>
    /\ published' = << >>
    /\ UNCHANGED <<sstate, user, accepted, closeCode, user_groups, groups,
                   inbox, messages, reactions, reads, typing, presence, now,
                   pending, auth_cache, user_store, upload, adding>>

\* the id of the next Conversation row
FreeConvs == {c \in NewConvs : conversations[c] = NoConversation}
new_conversation_id == CHOOSE c \in FreeConvs : TRUE

ActiveMembers(c) == {m \in memberships : m.conversation = c /\ m.is_active}

\* views.create_personal_conversation; other is the user member_email names
\* (NoUserId: no member_email)
create_personal_conversation(u, other) ==
    LET existing ==
            {c \in AllConvs :
                /\ conversations[c].type = "personal"
                /\ ActiveMembership(u, c) # {}
                /\ ActiveMembership(other, c) # {}}
        status == IF other = NoUserId \/ other = u THEN 400
                  ELSE IF user_store[other] = "absent" THEN 404
                  ELSE IF existing # {} THEN 200
                  ELSE 201
        c == new_conversation_id
    IN  /\ user_store[u] # "absent"
        /\ status = 201 => FreeConvs # {}
        /\ last' = [kind |-> "create_personal", user |-> u, other |-> other,
                    status |-> status]
        /\ rest_view
        /\ IF status = 201
           THEN /\ conversations' =
                     [conversations EXCEPT
                        ![c] = Conversation("personal", u,
                                            PERSONAL_MAX_MEMBERS)]
                /\ memberships' = memberships \cup
                     {Membership(u, c, "member", TRUE),
                      Membership(other, c, "member", TRUE)}
           ELSE UNCHANGED <<conversations, memberships>>

\* views.create_group_conversation with ConversationCreateSerializer: type
\* and member_emails come from the request, named tells whether a name was
\* given. A member_emails entry naming the requester makes the second
\* membership INSERT fail after the rows for the entries in before were
\* written; nothing is rolled back. max_members is the request's max_members
\* (DEFAULT_MAX_MEMBERS when the request has none).
create_group_conversation(u, type, members, named, before, max_members) ==
    LET invalid == \/ type = "personal" /\ Cardinality(members) # 1
                   \/ type = "group" /\ (~named \/ members = {})
                   \/ Cardinality(members) >= max_members
        fails == u \in members
        status == IF invalid THEN 400 ELSE IF fails THEN 500 ELSE 201
        c == new_conversation_id
        added == {v \in (IF fails THEN before ELSE members) :
                    user_store[v] # "absent"}
    IN  /\ user_store[u] # "absent"
        /\ before \subseteq members \ {u}
        /\ ~fails => before = {}
        /\ ~invalid => FreeConvs # {}
        /\ last' = [kind |-> "create_group", user |-> u, type |-> type,
                    members |-> members, status |-> status]
        /\ rest_view
        /\ IF invalid
           THEN UNCHANGED <<conversations, memberships>>
           ELSE /\ conversations' =
                     [conversations EXCEPT
                        ![c] = Conversation(type, u, max_members)]
                /\ memberships' = memberships
                     \cup {Membership(u, c, "admin", TRUE)}
                     \cup {Membership(v, c, "member", TRUE) : v \in added}

\* views.add_conversation_member; new is the user member_email names
add_conversation_member(u, c, new) ==
    LET existing_membership ==
            {m \in memberships : m.conversation = c /\ m.user = new}
        is_admin == \E m \in ActiveMembership(u, c) : m.role = "admin"
        status ==
            IF conversations[c] = NoConversation THEN 404
            ELSE IF ~is_admin THEN 403
            ELSE IF conversations[c].type = "personal" THEN 400
            ELSE IF new = NoUserId THEN 400
            ELSE IF user_store[new] = "absent" THEN 404
            ELSE IF \E m \in existing_membership : m.is_active THEN 400
            ELSE IF Cardinality(ActiveMembers(c)) >=
                      conversations[c].max_members THEN 400
            ELSE 201
    IN  /\ user_store[u] # "absent"
        /\ last' = [kind |-> "add_member", user |-> u, conversation |-> c,
                    new |-> new, status |-> status]
        /\ rest_view
        /\ UNCHANGED conversations
        /\ IF status # 201
           THEN UNCHANGED memberships
           ELSE IF existing_membership # {}
           THEN memberships' =
                   {IF m \in existing_membership
                    THEN [m EXCEPT !.is_active = TRUE, !.role = "member"]
                    ELSE m : m \in memberships}
           ELSE memberships' = memberships
                                 \cup {Membership(new, c, "member", TRUE)}

\* the reads of views.add_conversation_member, up to the member-limit check,
\* of a request r that is served while others are; a request that passes
\* the check keeps the membership row it read
add_member_check(r, u, c, new) ==
    LET existing_membership ==
            {m \in memberships : m.conversation = c /\ m.user = new}
        is_admin == \E m \in ActiveMembership(u, c) : m.role = "admin"
        status ==
            IF conversations[c] = NoConversation THEN 404
            ELSE IF ~is_admin THEN 403
            ELSE IF conversations[c].type = "personal" THEN 400
            ELSE IF new = NoUserId THEN 400
            ELSE IF user_store[new] = "absent" THEN 404
            ELSE IF \E m \in existing_membership : m.is_active THEN 400
            ELSE IF Cardinality(ActiveMembers(c)) >=
                      conversations[c].max_members THEN 400
            ELSE 201
    IN  /\ user_store[u] # "absent"
        /\ adding[r] = NoRequest
        /\ last' = [kind |-> "add_member_check", request |-> r, user |-> u,
                    conversation |-> c, new |-> new, status |-> status]
        /\ adding' = [adding EXCEPT
                        ![r] = IF status # 201 THEN NoRequest
                               ELSE [user |-> u, conversation |-> c,
                                     new |-> new,
                                     existing_membership |->
                                         existing_membership]]
        /\ sent' = << >>
        /\ published' = << >>
        /\ UNCHANGED <<sstate, user, accepted, closeCode, user_groups, groups,
                       inbox, memberships, messages, reactions, reads,
                       typing, presence, now, pending, auth_cache,
                       user_store, conversations, upload>>

\* the write of views.add_conversation_member: save() of the row read by
\* the check, or an INSERT that the unique key (user, conversation) refuses
\* when the row has appeared since
add_member_write(r) ==
    LET q == adding[r]
        row_now == {m \in memberships : m.conversation = q.conversation
                                        /\ m.user = q.new}
        status == IF q.existing_membership = {} /\ row_now # {}
                  THEN 500 ELSE 201
    IN  /\ q # NoRequest
        /\ adding' = [adding EXCEPT ![r] = NoRequest]
        /\ last' = [kind |-> "add_member", user |-> q.user,
                    conversation |-> q.conversation, new |-> q.new,
                    status |-> status]
        /\ memberships' =
              IF status = 500 THEN memberships
              ELSE IF q.existing_membership # {}
              THEN (memberships \ row_now)
                      \cup {[m EXCEPT !.is_active = TRUE,
                                      !.role = "member"] :
                               m \in q.existing_membership}
              ELSE memberships
                      \cup {Membership(q.new, q.conversation, "member",
                                       TRUE)}
        /\ sent' = << >>
        /\ published' = << >>
        /\ UNCHANGED <<sstate, user, accepted, closeCode, user_groups, groups,
                       inbox, messages, reactions, reads, typing, presence,
                       now, pending, auth_cache, user_store, conversations,
                       upload>>

\* authentication.views.set_password: the account of u is created and cached
set_password(u) ==
    /\ user_store[u] = "absent"
    /\ user_store' = [user_store EXCEPT ![u] = "active"]
    /\ auth_cache' = [auth_cache EXCEPT
                        ![u] = [id |-> u, is_active |-> TRUE,
                                timeout |-> CACHE_TIMEOUT]]
    /\ last' = [kind |-> "set_password", user |-> u]
    /\ sent' = << >>
    /\ published' = << >>
    /\ UNCHANGED <<sstate, user, accepted, closeCode, user_groups, groups,
                   inbox, memberships, messages, reactions, reads, typing,
                   presence, now, pending, conversations, upload, adding>>

Next ==
    \/ \E s \in Sessions, p \in Users \cup {Anonymous},
          f \in {"none", "accept", "send"} : Connect(s, p, f)
    \/ \E s \in Sessions, f \in {"none", "discard"}, d \in SUBSET GroupNames :
          Disconnect(s, f, d)
    \/ \E s \in Sessions, c \in ConvIds : ReceiveJoinConversation(s, c)
    \/ \E s \in Sessions, c \in ConvIds, b \in Bodies :
          ReceiveSendMessage(s, c, b)
    \/ \E s \in Sessions, c \in ConvIds : ReceiveTypingStart(s, c)
    \/ \E s \in Sessions, c \in ConvIds : ReceiveTypingStop(s, c)
    \/ \E s \in Sessions : ReceivePing(s)
    \/ \E s \in Sessions, mid \in MsgIdInputs : ReceiveDeleteMessage(s, mid)
    \/ \E s \in Sessions, mid \in MsgIdInputs, r \in ReactionInputs :
          ReceiveReactToMessage(s, mid, r)
    \/ \E s \in Sessions, c \in ConvIds : ReceiveMarkRead(s, c)
    \/ \E s \in Sessions : ReceiveUnknown(s)
    \/ \E s \in Sessions : ReceiveMalformed(s)
    \/ \E s \in Sessions : Deliver(s)
    \/ Tick
    \/ \E u \in Users, c \in Convs : leave_conversation(u, c)
    \/ \E u \in Users, c \in Convs : admin_add_message(u, c, "system")

Spec == Init /\ [][Next]_vars

\* connection lifecycle, joins and typing marks
NextSession ==
    \/ \E s \in Sessions, p \in Users \cup {Anonymous},
          f \in {"none", "accept", "send"} : Connect(s, p, f)
    \/ \E s \in Sessions, f \in {"none", "discard"}, d \in SUBSET GroupNames :
          Disconnect(s, f, d)
    \/ \E s \in Sessions, c \in ConvIds : ReceiveJoinConversation(s, c)
    \/ \E s \in Sessions, c \in ConvIds : ReceiveTypingStart(s, c)
    \/ \E s \in Sessions, c \in ConvIds : ReceiveTypingStop(s, c)
    \/ \E s \in Sessions : Deliver(s)

SpecSession == Init /\ [][NextSession]_vars

\* every inbound frame kind, on sessions that connected without fault;
\* no session is subscribed to a group (only refused joins)
NextFrames ==
    \/ \E s \in Sessions, p \in Users : Connect(s, p, "none")
    \/ \E s \in Sessions, c \in ConvIds :
          /\ ~check_conversation_membership(s, c)
          /\ ReceiveJoinConversation(s, c)
    \/ \E s \in Sessions, c \in ConvIds, b \in {<<" ">>, <<"hi">>} :
          ReceiveSendMessage(s, c, b)
    \/ \E s \in Sessions, c \in ConvIds : ReceiveTypingStart(s, c)
    \/ \E s \in Sessions, c \in ConvIds : ReceiveTypingStop(s, c)
    \/ \E s \in Sessions : ReceivePing(s)
    \/ \E s \in Sessions, mid \in MsgIdInputs : ReceiveDeleteMessage(s, mid)
    \/ \E s \in Sessions, mid \in MsgIdInputs, r \in {"", "thumbs_up", "bogus"} :
          ReceiveReactToMessage(s, mid, r)
    \/ \E s \in Sessions, c \in ConvIds : ReceiveMarkRead(s, c)
    \/ \E s \in Sessions : ReceiveUnknown(s)
    \/ \E s \in Sessions : ReceiveMalformed(s)

SpecFrames == Init /\ [][NextFrames]_vars

\* joins, sends and their delivery to the subscribed sessions
NextSend ==
    \/ \E s \in Sessions, p \in Users : Connect(s, p, "none")
    \/ \E s \in Sessions, c \in ConvIds : ReceiveJoinConversation(s, c)
    \/ \E s \in Sessions, c \in ConvIds, b \in Bodies :
          ReceiveSendMessage(s, c, b)
    \/ \E s \in Sessions : Deliver(s)
    \/ \E s \in Sessions, f \in {"none", "discard"}, d \in SUBSET GroupNames :
          Disconnect(s, f, d)

SpecSend == Init /\ [][NextSend]_vars

\* sends and deletes of messages of every kind and age
NextDelete ==
    \/ \E s \in Sessions, p \in Users : Connect(s, p, "none")
    \/ \E s \in Sessions, c \in Convs : ReceiveSendMessage(s, c, <<"hi">>)
    \/ \E s \in Sessions, mid \in MsgIdInputs : ReceiveDeleteMessage(s, mid)
    \/ \E u \in Users, c \in Convs : admin_add_message(u, c, "system")
    \/ Tick

SpecDelete == Init /\ [][NextDelete]_vars

\* deletes, reactions and typing marks by one session in one conversation
\* and their delivery to the subscribed sessions; the other session may be
\* opened by the same principal
Actor == "s1"

NextFanout ==
    \/ \E s \in Sessions, p \in Users : Connect(s, p, "none")
    \/ \E s \in Sessions : ReceiveJoinConversation(s, "c1")
    \/ ReceiveSendMessage(Actor, "c1", <<"hi">>)
    \/ \E mid \in MsgIdInputs : ReceiveDeleteMessage(Actor, mid)
    \/ \E mid \in MsgIdInputs : ReceiveReactToMessage(Actor, mid, "thumbs_up")
    \/ ReceiveTypingStart(Actor, "c1")
    \/ ReceiveTypingStop(Actor, "c1")
    \/ \E s \in Sessions : Deliver(s)

SpecFanout == Init /\ [][NextFanout]_vars

\* reactions of one session, one operation at a time, as the clock advances
NextReact ==
    \/ \E p \in Users : Connect(Actor, p, "none")
    \/ \E c \in Convs : ReceiveSendMessage(Actor, c, <<"hi">>)
    \/ \E mid \in MsgIdInputs, r \in valid_reactions :
          ReceiveReactToMessage(Actor, mid, r)
    \/ Tick

SpecReact == Init /\ [][NextReact]_vars

\* reaction requests of two sessions whose transactions overlap
NextReactRace ==
    \/ \E s \in Sessions, p \in Users : Connect(s, p, "none")
    \/ ReceiveSendMessage(Actor, "c1", <<"hi">>)
    \/ \E s \in Sessions, mid \in MsgIdInputs, r \in valid_reactions :
          ReactBegin(s, Data(NoConv, << >>, mid, r))
    \/ \E s \in Sessions : ReactFinish(s)
    \/ Tick

SpecReactRace == Init /\ [][NextReactRace]_vars

\* sends in one conversation, mark_read requests and the delivery of events
\* to the subscribed sessions
NextRead ==
    \/ \E s \in Sessions, p \in Users : Connect(s, p, "none")
    \/ \E s \in Sessions : ReceiveJoinConversation(s, "c1")
    \/ \E s \in Sessions : ReceiveSendMessage(s, "c1", <<"hi">>)
    \/ \E s \in Sessions, c \in ConvIds : ReceiveMarkRead(s, c)
    \/ \E s \in Sessions : Deliver(s)
    \/ Tick

SpecRead == Init /\ [][NextRead]_vars

\* frames of unknown type and undecodable frames among valid ones, on
\* sessions with and without joined conversations
NextErrors ==
    \/ \E s \in Sessions, p \in Users : Connect(s, p, "none")
    \/ \E s \in Sessions, c \in ConvIds : ReceiveJoinConversation(s, c)
    \/ \E s \in Sessions : ReceiveSendMessage(s, "c1", <<"hi">>)
    \/ \E s \in Sessions : ReceiveTypingStart(s, "c1")
    \/ \E s \in Sessions : ReceivePing(s)
    \/ \E s \in Sessions : ReceiveUnknown(s)
    \/ \E s \in Sessions : ReceiveMalformed(s)
    \/ \E s \in Sessions : Deliver(s)

SpecErrors == Init /\ [][NextErrors]_vars

\* handshake authentications with every kind of token, next to logins,
\* logouts, cache expiry and account (de)activation
NextAuth ==
    \/ \E token \in Tokens \cup {NoToken}, fault \in AuthFaults :
          JWTAuthMiddleware(token, fault)
    \/ \E u \in Users : login(u)
    \/ \E u \in Users : logout(u)
    \/ \E u \in Users : cache_expire(u)
    \/ \E u \in Users, a \in BOOLEAN : set_user_active(u, a)

SpecAuth == Init /\ [][NextAuth]_vars

\* handshakes with every kind of token while accounts are cached, logged
\* out, deactivated and deleted
NextHandshake ==
    \/ \E s \in Sessions, token \in Tokens \cup {NoToken},
          fault \in AuthFaults :
          Handshake(s, token, fault, "none")
    \/ \E u \in Users : login(u)
    \/ \E u \in Users : logout(u)
    \/ \E u \in Users : cache_expire(u)
    \/ \E u \in Users, a \in BOOLEAN : set_user_active(u, a)
    \/ \E u \in Users : delete_user(u)

SpecHandshake == Init /\ [][NextHandshake]_vars

\* the REST calls that create conversations and change memberships
NextMembers ==
    \/ \E u \in Users, other \in UserIds \cup {NoUserId} :
          create_personal_conversation(u, other)
    \/ \E u \in Users, type \in {"personal", "group"},
          members \in SUBSET UserIds, named \in BOOLEAN,
          before \in SUBSET UserIds :
          create_group_conversation(u, type, members, named, before,
                                    DEFAULT_MAX_MEMBERS)
    \/ \E u \in Users, c \in AllConvs, new \in UserIds \cup {NoUserId} :
          add_conversation_member(u, c, new)
    \/ \E u \in Users, c \in AllConvs : leave_conversation(u, c)

SpecMembers == Init /\ [][NextMembers]_vars

\* mark_read requests of session Actor next to the messages of both
\* sessions and the delivery of the read events
NextMarkRead ==
    \/ \E s \in Sessions, p \in Users : Connect(s, p, "none")
    \/ \E s \in Sessions : ReceiveJoinConversation(s, "c1")
    \/ \E s \in Sessions : ReceiveSendMessage(s, "c1", <<"hi">>)
    \/ \E c \in {"c1", NoConv}, message_ids \in MessageIdLists :
          MarkReadBegin(Actor, MarkReadData(c, message_ids))
    \/ MarkReadFinish(Actor)
    \/ \E s \in Sessions : Deliver(s)
    \/ Tick

\* sessions that join, publish and close in any order
NextBus ==
    \/ \E s \in Sessions, p \in Users : Connect(s, p, "none")
    \/ \E s \in Sessions, f \in {"none", "discard"}, d \in SUBSET GroupNames :
          Disconnect(s, f, d)
    \/ \E s \in Sessions, c \in Convs : ReceiveJoinConversation(s, c)
    \/ \E s \in Sessions, c \in Convs : ReceiveSendMessage(s, c, <<"hi">>)
    \/ \E s \in Sessions, c \in Convs : ReceiveTypingStart(s, c)
    \/ \E s \in Sessions : Deliver(s)

SpecBus == Init /\ [][NextBus]_vars

\* the requests of session Actor, some of which meet a failing database call
NextFaults ==
    \/ \E s \in Sessions, p \in Users : Connect(s, p, "none")
    \/ \E s \in Sessions : ReceiveJoinConversation(s, "c1")
    \/ ReceiveSendMessage(Actor, "c1", <<"hi">>)
    \/ ReceiveTypingStart(Actor, "c1")
    \/ \E type \in {"send_message", "delete_message", "react_to_message"},
          mid \in MsgIdInputs :
          \E fault \in FaultPoints(type) :
             ReceiveFault(Actor, type, Data("c1", <<"hi">>, mid, "heart"),
                          fault)
    \/ \E s \in Sessions : Deliver(s)

SpecFaults == Init /\ [][NextFaults]_vars

(***************************************************************************)
(* The background file pipeline (apps/files/tasks.py)                      *)
(***************************************************************************)
\* max_retries=3 of self.retry
MAX_RETRIES == 3

\* the call of an attempt that raises ("none": no fault); a fault of the
\* broadcast is caught inside broadcast_file_message_to_conversation
UploadFaults == {"none", "get", "storage", "chat_file", "message",
                 "broadcast"}

\* f"user_{user_id}" of notify_upload_failure
UserGroupName(u) == <<"user_", u>>

\* a caller stages the upload in a temp file and queues the task
stage_upload(u, c) ==
    /\ upload.status = "none"
    /\ upload' = [status |-> "queued", retries |-> 0, temp_file |-> TRUE,
                  conversation |-> c, user |-> u, chat_files |-> 0]
    /\ last' = [kind |-> "stage_upload", user |-> u, conversation |-> c]
    /\ sent' = << >>
    /\ published' = << >>
    /\ UNCHANGED <<sstate, user, accepted, closeCode, user_groups, groups,
                   inbox, memberships, messages, reactions, reads, typing,
                   presence, now, pending, auth_cache, user_store,
                   conversations, adding>>

\* message_data of broadcast_file_message_to_conversation
file_message_data(id, m, chat_file) ==
    [id |-> id, conversation_id |-> m.conversation, sender |-> m.sender,
     content |-> m.content, timestamp |-> m.timestamp,
     message_type |-> m.message_type, file_data |-> chat_file]

\* the event of broadcast_file_message_to_conversation
file_event(id, m, chat_file) ==
    [type |-> "new_message", message |-> file_message_data(id, m, chat_file)]

\* cleanup_temp_file: os.remove, whose failure is only logged
cleanup_temp_file(temp_file, cleanup_fault) == temp_file /\ cleanup_fault

\* the except branch of process_file_upload: the temp file is removed
\* before the retry is scheduled
temp_file_after_failure(temp_file, cleanup_fault) ==
    cleanup_temp_file(temp_file, cleanup_fault)

\* the call of the try block that raises in this attempt ("none": none)
upload_exception(fault) ==
    IF fault = "get"
       \/ conversations[upload.conversation] = NoConversation
       \/ user_store[upload.user] = "absent"
    THEN "get"
    ELSE IF fault = "storage" \/ ~upload.temp_file
    THEN "storage"
    ELSE IF fault \in {"chat_file", "message"} THEN fault
    ELSE "none"

\* one attempt of the task process_file_upload
process_file_upload(fault, cleanup_fault) ==
    /\ upload.status \in {"queued", "retry"}
    /\ LET c == upload.conversation
           u == upload.user
           exc == upload_exception(fault)
           group_name == GroupName(c)
           message == Msg(c, u, <<"file">>, "file", now)
           id == Len(messages) + 1
           ev == file_event(id, message, upload.chat_files + 1)
       IN  IF exc = "none"
           THEN /\ Len(messages) < MaxMsgs
                /\ GroupHasRoom(group_name)
                /\ messages' = Append(messages, message)
                /\ IF fault = "broadcast"
                   THEN /\ inbox' = inbox
                        /\ published' = << >>
                   ELSE /\ inbox' = group_deliver(group_name, ev)
                        /\ published' = <<[group |-> group_name,
                                           event |-> ev]>>
                /\ upload' = [upload EXCEPT
                       !.status = "success",
                       !.chat_files = @ + 1,
                       !.temp_file = cleanup_temp_file(@, cleanup_fault)]
                /\ last' = [kind |-> "process_file_upload", fault |-> fault,
                            exc |-> exc, status |-> "success",
                            message_id |-> id]
           ELSE /\ messages' = messages
                /\ inbox' = inbox
                /\ published' =
                      <<[group |-> UserGroupName(u),
                         event |-> [type |-> "upload_failed",
                                    message |-> NoId]]>>
                /\ upload' = [upload EXCEPT
                       !.status = IF upload.retries >= MAX_RETRIES
                                  THEN "failure" ELSE "retry",
                       !.retries = IF upload.retries >= MAX_RETRIES
                                   THEN @ ELSE @ + 1,
                       !.chat_files = IF exc = "message" THEN @ + 1 ELSE @,
                       !.temp_file =
                           temp_file_after_failure(@, cleanup_fault)]
                /\ last' = [kind |-> "process_file_upload", fault |-> fault,
                            exc |-> exc, status |-> upload'.status,
                            message_id |-> NoId]
    /\ sent' = << >>
    /\ UNCHANGED <<sstate, user, accepted, closeCode, user_groups, groups,
                   memberships, reactions, reads, typing, presence, now,
                   pending, auth_cache, user_store, conversations,
                   adding>>

\* uploads staged and processed while sessions join and receive
NextFiles ==
    \/ \E s \in Sessions, p \in Users : Connect(s, p, "none")
    \/ \E s \in Sessions : ReceiveJoinConversation(s, "c1")
    \/ \E u \in Users : stage_upload(u, "c1")
    \/ \E fault \in UploadFaults, cleanup_fault \in BOOLEAN :
          process_file_upload(fault, cleanup_fault)
    \/ \E s \in Sessions : Deliver(s)

SpecFiles == Init /\ [][NextFiles]_vars

\* members that join, leave over REST, and keep sending and receiving
NextLeave ==
    \/ \E s \in Sessions, p \in Users : Connect(s, p, "none")
    \/ \E s \in Sessions : ReceiveJoinConversation(s, "c1")
    \/ \E u \in Users : leave_conversation(u, "c1")
    \/ \E s \in Sessions : ReceiveSendMessage(s, "c1", <<"hi">>)
    \/ \E s \in Sessions : ReceiveTypingStart(s, "c1")
    \/ \E s \in Sessions : Deliver(s)

SpecLeave == Init /\ [][NextLeave]_vars

\* sessions of the same or of different principals that connect, join and
\* close without any fault
NextPresence ==
    \/ \E s \in Sessions, p \in Users : Connect(s, p, "none")
    \/ \E s \in Sessions : Disconnect(s, "none", user_groups[s])
    \/ \E s \in Sessions, c \in Convs : ReceiveJoinConversation(s, c)
    \/ \E s \in Sessions, c \in Convs : ReceiveTypingStart(s, c)
    \/ \E s \in Sessions : Deliver(s)

SpecPresence == Init /\ [][NextPresence]_vars

\* max_members of a request that asks for a group of two
SMALL_GROUP == 2

\* a group of two whose admin adds members in requests served together
NextAddRace ==
    \/ \E u \in UserIds : set_password(u)
    \/ \E members \in {{"u2"}, {"u0"}} :
          create_group_conversation("u1", "group", members, TRUE, {},
                                    SMALL_GROUP)
    \/ \E u \in Users, c \in AllConvs : leave_conversation(u, c)
    \/ \E r \in Requests, c \in {"c1", "c3"}, new \in UserIds :
          add_member_check(r, "u1", c, new)
    \/ \E r \in Requests : add_member_write(r)

SpecAddRace == Init /\ [][NextAddRace]_vars

\* typing marks set and cleared by typing frames, sends and closes
NextTyping ==
    \/ \E s \in Sessions, p \in Users : Connect(s, p, "none")
    \/ \E s \in Sessions, f \in {"none", "discard"}, d \in SUBSET GroupNames :
          Disconnect(s, f, d)
    \/ \E s \in Sessions : ReceiveJoinConversation(s, "c1")
    \/ \E s \in Sessions, c \in Convs : ReceiveTypingStart(s, c)
    \/ \E s \in Sessions, c \in Convs : ReceiveTypingStop(s, c)
    \/ \E s \in Sessions, c \in Convs : ReceiveSendMessage(s, c, <<"hi">>)
    \/ \E s \in Sessions : Deliver(s)

SpecTyping == Init /\ [][NextTyping]_vars

SpecMarkRead == Init /\ [][NextMarkRead]_vars

\* mark_read requests of two sessions of one principal whose transactions
\* overlap, on messages of that principal and of another member
NextMarkReadRace ==
    \/ \E s \in Sessions : Connect(s, "u1", "none")
    \/ \E u \in Users : admin_add_message(u, "c1", "text")
    \/ \E s \in Sessions, message_ids \in {{}, {1}} :
          MarkReadBegin(s, MarkReadData("c1", message_ids))
    \/ \E s \in Sessions : MarkReadFinish(s)
    \/ Tick

SpecMarkReadRace == Init /\ [][NextMarkReadRace]_vars

\* a mark_read of a principal who leaves the conversation over REST while
\* the transaction of the mark_read is open
NextMarkReadLeave ==
    \/ \E s \in Sessions : Connect(s, "u1", "none")
    \/ \E u \in Users : admin_add_message(u, "c1", "text")
    \/ \E s \in Sessions, message_ids \in {{}, {1}} :
          MarkReadBegin(s, MarkReadData("c1", message_ids))
    \/ leave_conversation("u1", "c1")
    \/ \E s \in Sessions : MarkReadFinish(s)
    \/ Tick

SpecMarkReadLeave == Init /\ [][NextMarkReadLeave]_vars

(***************************************************************************)
(* Properties                                                              *)
(***************************************************************************)
\* the step just taken was session s processing an inbound frame of this type
Received(op, s, type) ==
    op.kind = "receive" /\ op.session = s /\ op.type = type

NotMemberError == "You are not a member of this conversation"

IsMember(u, c) ==
    \E m \in memberships : m.user = u /\ m.conversation = c /\ m.is_active

IsAdmin(u, c) ==
    \E m \in memberships :
        m.user = u /\ m.conversation = c /\ m.is_active /\ m.role = "admin"

\* C1: a join_conversation for conversation c subscribes the session to c's
\* group key and records the key in the joined set only if the principal has
\* an active Membership in c when the frame is handled; without one the
\* session gets the error 'You are not a member of this conversation', the
\* subscriber sets and the joined sets are unchanged and nothing is published.
C1_JoinRequiresActiveMembership ==
    [][\A s \in Sessions, c \in Convs :
        (/\ Received(last', s, "join_conversation")
         /\ last'.data.conversation_id = c)
        => IF IsMember(user[s], c)
           THEN /\ s \in groups'[GroupName(c)]
                /\ GroupName(c) \in user_groups'[s]
           ELSE /\ sent' = <<[to |-> s, type |-> "error",
                              data |-> NotMemberError]>>
                /\ groups' = groups
                /\ user_groups' = user_groups
                /\ inbox' = inbox
                /\ published' = << >>]_vars

\* a principal whose membership row exists but is inactive was refused a join
C1_Witness ==
    \E s \in Sessions, c \in Convs :
        /\ Received(last, s, "join_conversation")
        /\ last.data.conversation_id = c
        /\ \E m \in memberships :
              m.user = user[s] /\ m.conversation = c /\ ~m.is_active
        /\ sent = <<[to |-> s, type |-> "error", data |-> NotMemberError]>>
        /\ s \notin groups[GroupName(c)]

\* C2: whenever an Active session closes, the session is unsubscribed from
\* every group key of its joined set, the principal's PresenceRecord is
\* offline and no TypingMark of the principal is left, also when a cleanup
\* step raises.
C2_DisconnectRunsAllCleanup ==
    [][\A s \in Sessions :
        (sstate[s] = "Active" /\ sstate'[s] = "Closed")
        => /\ \A g \in user_groups[s] : s \notin groups'[g]
           /\ presence'[user[s]] = "offline"
           /\ \A t \in typing' : t.user # user[s]]_vars

OpKinds == {"send_message", "delete_message", "react_to_message",
            "mark_read", "typing_start", "typing_stop"}

ByConversation == {"send_message", "mark_read", "typing_start", "typing_stop"}
ByMessage == {"delete_message", "react_to_message"}

ReactionSymbols == {"thumbs_up", "heart"}

\* first and last positions of a body that are not whitespace
FirstInk(b) == CHOOSE i \in 1..Len(b) :
                  b[i] # " " /\ \A j \in 1..(i - 1) : b[j] = " "
LastInk(b) == CHOOSE i \in 1..Len(b) :
                  b[i] # " " /\ \A j \in (i + 1)..Len(b) : b[j] = " "
Blank(b) == \A i \in 1..Len(b) : b[i] = " "
Trimmed(b) == IF Blank(b) THEN << >> ELSE SubSeq(b, FirstInk(b), LastInk(b))

\* the frame lacks a required id, has an empty trimmed body or names an
\* unknown reaction symbol
FailsValidation(op) ==
    \/ op.type \in ByConversation /\ op.data.conversation_id = NoConv
    \/ op.type \in ByMessage /\ op.data.message_id = NoId
    \/ op.type = "send_message" /\ Blank(op.data.content)
    \/ op.type = "react_to_message"
         /\ op.data.reaction_type \notin ReactionSymbols

\* the requester has no active Membership in the conversation the frame
\* is aimed at
NotMemberOfTarget(u, op) ==
    \/ /\ op.type \in ByConversation
       /\ op.data.conversation_id \in Convs
       /\ ~IsMember(u, op.data.conversation_id)
    \/ /\ op.type \in ByMessage
       /\ op.data.message_id \in MessageIds
       /\ ~IsMember(u, messages[op.data.message_id].conversation)

\* C4: for every operation kind, a frame whose requester has no active
\* Membership in the target conversation, or that fails validation, changes
\* no Message, Reaction, ReadReceipt, TypingMark or Membership row and
\* publishes no event.
C4_RefusedOperationHasNoEffect ==
    [][\A s \in Sessions :
        (/\ last'.kind = "receive" /\ last'.session = s
         /\ last'.type \in OpKinds
         /\ FailsValidation(last') \/ NotMemberOfTarget(user[s], last'))
        => /\ UNCHANGED <<memberships, messages, reactions, reads, typing>>
           /\ published' = << >>]_vars

\* the delete policy refuses the requester u on message m
DeleteRefused(u, m) ==
    \/ m.message_type = "system"
    \/ /\ ~(m.sender = u /\ now - m.timestamp <= DELETE_WINDOW)
       /\ ~IsAdmin(u, m.conversation)

\* the frame is one the handlers reject
Rejected(u, op) ==
    \/ op.type \notin (OpKinds \cup {"join_conversation", "ping"})
    \/ op.type = "join_conversation"
         /\ (op.data.conversation_id = NoConv
             \/ ~IsMember(u, op.data.conversation_id))
    \/ op.type \in OpKinds
         /\ (FailsValidation(op) \/ NotMemberOfTarget(u, op))
    \/ /\ op.type = "delete_message"
       /\ op.data.message_id \in MessageIds
       /\ DeleteRefused(u, messages[op.data.message_id])

\* C5: every rejected inbound frame, of every operation kind, makes exactly
\* one 'error' frame, sent to the sending session and to no other.
C5_RejectedFrameGetsOneError ==
    [][\A s \in Sessions :
        (/\ last'.kind = "receive" /\ last'.session = s
         /\ Rejected(user[s], last'))
        => /\ Len(sent') = 1
           /\ sent'[1].type = "error"
           /\ sent'[1].to = s]_vars

\* C6: a send_message by an active member with a non-empty trimmed body adds
\* exactly one Message row (sender the requester, content the trimmed body,
\* kind text) and publishes one new_message event that reaches every live
\* session subscribed to the conversation's key, the sender's own included;
\* a session forwards a new_message event to its client unfiltered.
C6_SendCreatesAndBroadcasts ==
    [][/\ \A s \in Sessions, c \in Convs :
            (/\ Received(last', s, "send_message")
             /\ last'.data.conversation_id = c
             /\ IsMember(user[s], c)
             /\ ~Blank(last'.data.content))
            => /\ Len(messages') = Len(messages) + 1
               /\ SubSeq(messages', 1, Len(messages)) = messages
               /\ LET row == messages'[Len(messages')]
                  IN  /\ row.sender = user[s]
                      /\ row.conversation = c
                      /\ row.content = Trimmed(last'.data.content)
                      /\ row.message_type = "text"
                      /\ Len(published') = 1
                      /\ published'[1].group = <<"conversation_", c>>
                      /\ published'[1].event.type = "new_message"
                      /\ published'[1].event.message.id = Len(messages')
                      /\ published'[1].event.message.content = row.content
                      /\ published'[1].event.message.sender = user[s]
                      /\ \A t \in Sessions :
                            inbox'[t] =
                               IF /\ t \in groups[<<"conversation_", c>>]
                                  /\ sstate[t] = "Active"
                               THEN Append(inbox[t], published'[1].event)
                               ELSE inbox[t]
       /\ \A t \in Sessions :
            (/\ last'.kind = "deliver" /\ last'.session = t
             /\ last'.event.type = "new_message")
            => sent' = <<[to |-> t, type |-> "new_message",
                          data |-> last'.event.message]>>]_vars

\* a member's send with surrounding whitespace reached the inboxes of its own
\* session and of another member's session, both subscribed
C6_Witness ==
    \E s, t \in Sessions, c \in Convs :
        /\ s # t
        /\ Received(last, s, "send_message")
        /\ last.data.content = <<" ", "hi", " ">>
        /\ {s, t} \subseteq groups[GroupName(c)]
        /\ Len(published) = 1
        /\ inbox[s] = <<published[1].event>>
        /\ inbox[t] = <<published[1].event>>
        /\ messages[Len(messages)].content = <<"hi">>

\* the step just taken was session s asking to delete the existing message mid
DeleteOf(op, s, mid) ==
    /\ Received(op, s, "delete_message")
    /\ op.data.message_id = mid

AuthorSentinel == <<"[Message ", "deleted by author", "]">>
AdminSentinel == <<"[Message ", "deleted by admin", "]">>

\* C7: delete_message on a system message by any active member is rejected
\* with 'System messages cannot be deleted'; the message is unchanged and no
\* deletion event is published.
C7_SystemMessageNotDeletable ==
    [][\A s \in Sessions, mid \in MessageIds :
        (/\ DeleteOf(last', s, mid)
         /\ messages[mid].message_type = "system"
         /\ IsMember(user[s], messages[mid].conversation))
        => /\ sent' = <<[to |-> s, type |-> "error",
                         data |-> "System messages cannot be deleted"]>>
           /\ messages' = messages
           /\ published' = << >>]_vars

\* the admin of the conversation, who is also the sender of the system
\* message, was refused
C7_Witness ==
    \E s \in Sessions, mid \in MessageIds :
        /\ DeleteOf(last, s, mid)
        /\ messages[mid].message_type = "system"
        /\ messages[mid].sender = user[s]
        /\ IsAdmin(user[s], messages[mid].conversation)
        /\ Len(sent) = 1 /\ sent[1].type = "error"

\* the delete of message mid by session s succeeded in this step
DeleteSucceeded(s, mid) ==
    /\ Len(sent') = 1
    /\ sent'[1].type = "message_delete_success"
    /\ sent'[1].to = s
    /\ messages'[mid].is_edited
    /\ messages'[mid].content \in {AuthorSentinel, AdminSentinel}

\* C8: delete_message by an active admin succeeds on every non-system
\* message of the conversation, whatever its age and author.
C8_AdminDeletesAnyMessage ==
    [][\A s \in Sessions, mid \in MessageIds :
        (/\ DeleteOf(last', s, mid)
         /\ messages[mid].message_type # "system"
         /\ IsAdmin(user[s], messages[mid].conversation))
        => DeleteSucceeded(s, mid)]_vars

\* the delete of message mid by session s was refused in this step
DeleteRejected(s, mid) ==
    /\ Len(sent') = 1
    /\ sent'[1].type = "error"
    /\ sent'[1].to = s
    /\ messages' = messages
    /\ published' = << >>

DeleteByAuthor(s, mid) ==
    /\ DeleteSucceeded(s, mid)
    /\ messages'[mid].content = AuthorSentinel
    /\ Len(published') = 1
    /\ published'[1].event.delete_reason = "deleted by author"

\* C9 as stated: for an active non-admin member, delete_message on a
\* non-system message succeeds iff the requester is the sender and the
\* message's age is at most 24 hours.
C9_AuthorWindowInclusive ==
    [][\A s \in Sessions, mid \in MessageIds :
        (/\ DeleteOf(last', s, mid)
         /\ messages[mid].message_type # "system"
         /\ IsMember(user[s], messages[mid].conversation)
         /\ ~IsAdmin(user[s], messages[mid].conversation))
        => IF /\ messages[mid].sender = user[s]
              /\ now - messages[mid].timestamp <= 2
           THEN DeleteByAuthor(s, mid)
           ELSE DeleteRejected(s, mid)]_vars

\* C9 amended: for an active non-admin member, delete_message on a
\* non-system message succeeds iff the requester is the sender and the
\* message's age is strictly less than 24 hours; on success the reason is
\* 'by author', otherwise the request is rejected and the message unchanged.
C9_AuthorWindowExclusive ==
    [][\A s \in Sessions, mid \in MessageIds :
        (/\ DeleteOf(last', s, mid)
         /\ messages[mid].message_type # "system"
         /\ IsMember(user[s], messages[mid].conversation)
         /\ ~IsAdmin(user[s], messages[mid].conversation))
        => IF /\ messages[mid].sender = user[s]
              /\ now - messages[mid].timestamp < 2
           THEN DeleteByAuthor(s, mid)
           ELSE DeleteRejected(s, mid)]_vars

\* a non-admin author was refused on a message aged exactly 24 hours
C9_Witness ==
    \E s \in Sessions, mid \in MessageIds :
        /\ DeleteOf(last, s, mid)
        /\ messages[mid].sender = user[s]
        /\ messages[mid].message_type = "text"
        /\ IsMember(user[s], messages[mid].conversation)
        /\ ~IsAdmin(user[s], messages[mid].conversation)
        /\ now - messages[mid].timestamp = 2
        /\ ~messages[mid].is_edited
        /\ Len(sent) = 1 /\ sent[1].type = "error"

\* C10: no step removes a Message row or changes a row's sender,
\* conversation, kind or creation timestamp; after a successful delete the
\* content is the bracketed sentinel of the reason used, is_edited is true
\* and edited_at is set.
C10_SoftDeleteOnly ==
    [][/\ Len(messages') >= Len(messages)
       /\ \A i \in 1..Len(messages) :
            /\ messages'[i].sender = messages[i].sender
            /\ messages'[i].conversation = messages[i].conversation
            /\ messages'[i].message_type = messages[i].message_type
            /\ messages'[i].timestamp = messages[i].timestamp
       /\ \A s \in Sessions, mid \in MessageIds :
            (/\ DeleteOf(last', s, mid)
             /\ Len(sent') = 1
             /\ sent'[1].type = "message_delete_success")
            => /\ Len(published') = 1
               /\ published'[1].event.delete_reason
                     \in {"deleted by author", "deleted by admin"}
               /\ messages'[mid].content =
                     IF published'[1].event.delete_reason = "deleted by author"
                     THEN AuthorSentinel ELSE AdminSentinel
               /\ sent'[1].data.new_content = messages'[mid].content
               /\ messages'[mid].is_edited
               /\ messages'[mid].edited_at = now]_vars

\* an admin soft-deleted another member's message
C10_Witness ==
    \E s \in Sessions, mid \in MessageIds :
        /\ DeleteOf(last, s, mid)
        /\ Len(sent) = 1 /\ sent[1].type = "message_delete_success"
        /\ messages[mid].content = AdminSentinel
        /\ messages[mid].sender # user[s]
        /\ messages[mid].is_edited

\* the frames session s writes when its consumer processes this group event
Forwarded(s, event) ==
    CASE event.type = "new_message" -> recv_new_message(s, event)
      [] event.type = "message_deleted" -> recv_message_deleted(s, event)
      [] event.type = "reaction_update" -> recv_reaction_update(s, event)
      [] event.type = "typing_update" -> recv_typing_update(s, event)

ActingKinds == {"delete_message", "react_to_message", "typing_start",
                "typing_stop"}

\* session s just completed a delete, a reaction or a typing action and
\* published its event
Acted(op, s, pub) ==
    /\ op.kind = "receive" /\ op.session = s /\ op.type \in ActingKinds
    /\ pub # << >>

\* C11: a session that completes a delete, a reaction or a typing action is
\* never sent the message_deleted, reaction_update or typing_update frame of
\* its own action: the event it published yields no frame on that session,
\* and a session processing an event writes exactly the frames its receiver
\* yields.
C11_ActingSessionNotNotified ==
    [][/\ \A s \in Sessions :
            Acted(last', s, published')
            => /\ Len(published') = 1
               /\ published'[1].event.type \in
                     {"message_deleted", "reaction_update", "typing_update"}
               /\ Forwarded(s, published'[1].event) = << >>
       /\ last'.kind = "deliver"
            => sent' = Forwarded(last'.session, last'.event)]_vars

\* a subscribed session processed the message_deleted event of its own
\* delete and wrote nothing
C11_Witness ==
    /\ last.kind = "deliver"
    /\ last.event.type = "message_deleted"
    /\ last.event.deleted_by = user[last.session]
    /\ GroupName(last.event.conversation_id) \in user_groups[last.session]
    /\ sent = << >>

AckKinds == {"message_delete_success", "reaction_success", "typing_success"}

\* C12: a session that completes a delete, a reaction or a typing action is
\* sent exactly one private acknowledgment frame for it.
C12_ActorGetsAcknowledgment ==
    [][\A s \in Sessions :
        Acted(last', s, published')
        => /\ Len(sent') = 1
           /\ sent'[1].to = s
           /\ sent'[1].type \in AckKinds]_vars

\* C13: the event of a delete, a reaction or a typing action reaches every
\* other session subscribed to the conversation, a second session of the
\* acting principal included, and that session is sent the frame.
C13_OtherSessionsNotified ==
    [][\A s \in Sessions : \A t \in Sessions \ {s} :
        (/\ Acted(last', s, published')
         /\ t \in groups[published'[1].group]
         /\ sstate[t] = "Active")
        => /\ inbox'[t] = Append(inbox[t], published'[1].event)
           /\ Forwarded(t, published'[1].event) # << >>]_vars

\* session s just processed a reaction request with symbol r on message mid
ReactOf(op, s, mid, r) ==
    /\ Received(op, s, "react_to_message")
    /\ op.data.message_id = mid
    /\ op.data.reaction_type = r

\* the MessageReaction rows of principal u on message mid
ReactionsOf(rows, u, mid) == {x \in rows : x.message = mid /\ x.user = u}

\* C14: when reaction operations run one after another, a reaction with
\* symbol r by an active member on a message they have no reaction on adds
\* one row (action added); with the symbol of their existing row it deletes
\* that row (action removed, no reaction data); with another symbol it
\* replaces symbol and timestamp of the existing row (action updated); the
\* principal has at most one row on the message before and after, and other
\* rows are untouched.
C14_ToggleSemantics ==
    [][\A s \in Sessions, mid \in MessageIds, r \in valid_reactions :
        (/\ ReactOf(last', s, mid, r)
         /\ IsMember(user[s], messages[mid].conversation))
        => LET mine == ReactionsOf(reactions, user[s], mid)
               fresh == [message |-> mid, user |-> user[s],
                         reaction_type |-> r, created_at |-> now]
               ack == sent'[1]
           IN  /\ Cardinality(mine) <= 1
               /\ Cardinality(ReactionsOf(reactions', user[s], mid)) <= 1
               /\ Len(sent') = 1 /\ ack.type = "reaction_success"
               /\ mine = {}
                    => /\ reactions' = reactions \cup {fresh}
                       /\ ack.data.action = "added"
               /\ (\E x \in mine : x.reaction_type = r)
                    => /\ reactions' = reactions \ mine
                       /\ ack.data.action = "removed"
                       /\ ack.data.reaction_data = << >>
               /\ (\E x \in mine : x.reaction_type # r)
                    => /\ reactions' = (reactions \ mine) \cup {fresh}
                       /\ ack.data.action = "updated"
                       /\ ack.data.reaction_data = <<user[s], r, now>>]_vars

\* a reaction was just replaced by another symbol at a later clock value
C14_Witness ==
    /\ last.kind = "receive" /\ last.type = "react_to_message"
    /\ Len(sent) = 1 /\ sent[1].type = "reaction_success"
    /\ sent[1].data.action = "updated"
    /\ now > 0
    /\ \E x \in reactions :
          /\ x.message = last.data.message_id
          /\ x.user = user[last.session]
          /\ x.reaction_type = last.data.reaction_type
          /\ x.created_at = now
          /\ messages[x.message].timestamp < now

\* C15: whatever the interleaving of reaction requests, a principal has at
\* most one MessageReaction row on a message.
C15_OneReactionPerPrincipal ==
    \A u \in Users, mid \in MessageIds :
        Cardinality(ReactionsOf(reactions, u, mid)) <= 1

RecognizedTypes == {"join_conversation", "send_message", "typing_start",
                    "typing_stop", "delete_message", "react_to_message",
                    "mark_read", "ping"}

\* C16: a frame of a recognized type received by an Active session is never
\* answered with the unknown-type error, and a ping is answered with one pong
\* frame.
C16_RecognizedTypesRouted ==
    [][\A s \in Sessions, type \in RecognizedTypes :
        Received(last', s, type)
        => /\ \A i \in 1..Len(sent') :
                ~(/\ sent'[i].type = "error"
                  /\ ToString(sent'[i].data) =
                       ToString(<<"Unknown message type: ", type>>))
           /\ type = "ping"
                => Len(sent') = 1 /\ sent'[1].to = s /\ sent'[1].type = "pong"]_vars

\* the membership row of principal u in conversation c
MembershipOf(rows, u, c) == {m \in rows : m.user = u /\ m.conversation = c}

\* the messages of conversation c that count as unread for u: no MessageRead
\* row of u, and newer than u's watermark when the watermark is set
Unread(u, c) ==
    {mid \in MessageIds :
        /\ messages[mid].conversation = c
        /\ ~\E x \in reads : x.message = mid /\ x.user = u
        /\ \A m \in MembershipOf(memberships, u, c) :
              m.last_read_at = -1 \/ messages[mid].timestamp > m.last_read_at}

\* session s just processed a mark_read request without message ids on c
MarkReadOf(op, s, c) ==
    Received(op, s, "mark_read") /\ op.data.conversation_id = c

\* C17: mark_read without message ids by an active member, none of whose
\* unread messages is their own, creates one MessageRead row per unread
\* message and no other, and sets the membership's last_read_at to the time
\* of the call (so a repeated call creates no row and sets it again).
C17_MarkAllReadCreatesReceipts ==
    [][\A s \in Sessions, c \in Convs :
        (/\ MarkReadOf(last', s, c)
         /\ IsMember(user[s], c)
         /\ \A mid \in Unread(user[s], c) : messages[mid].sender # user[s])
        => /\ reads' = reads \cup
                 {[message |-> mid, user |-> user[s], read_at |-> now] :
                    mid \in Unread(user[s], c)}
           /\ \A m \in MembershipOf(memberships', user[s], c) :
                 m.last_read_at = now]_vars

\* C18: when a mark_read marks exactly one message, its message_read event
\* reaches every other subscribed session, and a session is sent the
\* message_read frame exactly when its principal is not the reader and is an
\* active admin of the conversation or the author of the message.
C18_ReadReceiptVisibility ==
    [][\A s \in Sessions, c \in Convs, mid \in MessageIds :
        \A t \in Sessions \ {s} :
        (/\ MarkReadOf(last', s, c)
         /\ IsMember(user[s], c)
         /\ Unread(user[s], c) = {mid}
         /\ messages[mid].sender # user[s]
         /\ t \in groups[GroupName(c)]
         /\ sstate[t] = "Active"
         /\ user[t] # user[s]
         /\ IsAdmin(user[t], c) \/ messages[mid].sender = user[t])
        => \E i \in 1..Len(inbox'[t]) :
              /\ inbox'[t][i].type = "message_read"
              /\ inbox'[t][i].message_id = mid
              /\ inbox'[t][i].reader_id = user[s]]_vars

\* session s just processed a frame that json.loads could not decode or
\* whose type has no handler
Unroutable(op, s) ==
    /\ op.kind = "receive" /\ op.session = s
    /\ op.type \notin handlers

\* C19: an Active session that receives a frame of unknown type or an
\* undecodable frame sends one error frame, to itself only, publishes
\* nothing, changes no row and no subscription, and stays Active with no
\* request open, so that its next frame is processed.
C19_UnroutableFrameOnlyErrors ==
    [][\A s \in Sessions :
        Unroutable(last', s)
        => /\ Len(sent') = 1
           /\ sent'[1].type = "error" /\ sent'[1].to = s
           /\ published' = << >>
           /\ UNCHANGED <<memberships, messages, reactions, reads, typing,
                          presence, user_groups, groups, inbox>>
           /\ sstate'[s] = "Active" /\ closeCode'[s] = 0
           /\ pending'[s] = NoPending]_vars

\* a session that joined a conversation and holds an undelivered event just
\* answered an undecodable frame, with a message stored
C19_Witness ==
    /\ last.kind = "receive" /\ last.type = "malformed"
    /\ user_groups[last.session] # {}
    /\ inbox[last.session] # << >>
    /\ messages # << >>
    /\ typing # {}
    /\ sstate[last.session] = "Active"

\* C20: the authenticator never raises to its caller, and it returns the
\* anonymous user for a connection without token and for every token that is
\* malformed, expired, wrongly signed, without user_id claim, or whose
\* processing hits a cache or store fault.
C20_AuthFailureIsAnonymous ==
    [][last'.kind = "authenticate"
        => /\ ~last'.raised
           /\ (\/ last'.token.kind \in {"absent", "malformed", "expired",
                                         "bad_signature"}
               \/ last'.token.user_id = NoUserId
               \/ last'.exc # "")
              => last'.result = AnonymousUser]_vars

\* the cache write failed while authenticating an existing active user with
\* a valid token; the result was anonymous
C20_Witness ==
    /\ last.kind = "authenticate"
    /\ last.token.kind = "valid"
    /\ last.token.user_id \in Users
    /\ user_store[last.token.user_id] = "active"
    /\ last.fault = "cache_set"
    /\ last.exc = "ConnectionError"
    /\ last.result = AnonymousUser

\* the handshake of session s just ran with a decodable token naming uid
HandshakeOf(op, s, uid) ==
    /\ op.kind = "handshake" /\ op.session = s
    /\ op.token.kind = "valid" /\ op.token.user_id = uid

\* C21: a handshake whose token names an id that has no User row at that
\* time authenticates as anonymous and the connection is rejected with the
\* unauthenticated close code, whether or not the cache holds an entry for
\* the id.
C21_UnknownPrincipalRejected ==
    [][\A s \in Sessions, uid \in UserIds :
        (HandshakeOf(last', s, uid) /\ user_store[uid] = "absent")
        => /\ last'.result = AnonymousUser
           /\ sstate'[s] = "Rejected"
           /\ closeCode'[s] = CLOSE_UNAUTHENTICATED]_vars

\* C22: every personal conversation has exactly two active memberships.
C22_PersonalHasTwoMembers ==
    \A c \in AllConvs :
        conversations[c].type = "personal"
        => Cardinality({m \in memberships :
                          m.conversation = c /\ m.is_active}) = 2

\* C23: when a membership's watermark (last_read_at) is set, every message
\* of that conversation that the member did not author and that was created
\* at or before the watermark has a MessageRead row of that member.
C23_WatermarkCoversReceipts ==
    \A m \in memberships :
        m.last_read_at # -1
        => \A mid \in MessageIds :
              (/\ messages[mid].conversation = m.conversation
               /\ messages[mid].sender # m.user
               /\ messages[mid].timestamp <= m.last_read_at)
              => \E x \in reads : x.message = mid /\ x.user = m.user

\* C24: delete_message on a message that is already soft-deleted (its content
\* is a deletion sentinel) leaves content, is_edited and edited_at as the
\* first delete set them, whoever repeats the request.
C24_RedeleteChangesNothing ==
    [][\A s \in Sessions, mid \in MessageIds :
        (/\ DeleteOf(last', s, mid)
         /\ messages[mid].is_edited
         /\ messages[mid].content \in {AuthorSentinel, AdminSentinel})
        => /\ messages'[mid].content = messages[mid].content
           /\ messages'[mid].is_edited = messages[mid].is_edited
           /\ messages'[mid].edited_at = messages[mid].edited_at]_vars

\* C25: there is at most one MessageRead row per (message, user), and no
\* MessageRead row whose user is the sender of the message, also when two
\* sessions of one principal have mark_read requests open at the same time.
C25_OneReceiptNotOwn ==
    \A x \in reads :
        /\ messages[x.message].sender # x.user
        /\ \A y \in reads :
              (y.message = x.message /\ y.user = x.user) => y = x

\* a mark_read request has just completed whose INSERT met the row another
\* request of the same principal had written at an earlier time
C25_Witness ==
    /\ last.kind = "mark_read"
    /\ \E mid \in last.marked_message_ids :
          \E x \in reads :
              /\ x.message = mid
              /\ x.user = user[last.session]
              /\ x.read_at # last.read_at

\* C26: a completed mark_read publishes a conversation_read event only when
\* it newly marked more than one message and a message_read event when it
\* newly marked exactly one; a session forwards a conversation_read event
\* exactly when its principal is an active member of the conversation other
\* than the reader.
C26_AggregateOnlyForSeveral ==
    [][/\ last'.kind = "mark_read"
          => /\ Len(published') = 1
             /\ published'[1].event.type = "conversation_read"
                  => Cardinality(last'.marked_message_ids) > 1
             /\ Cardinality(last'.marked_message_ids) = 1
                  => published'[1].event.type = "message_read"
       /\ \A s \in Sessions :
            (/\ last'.kind = "deliver"
             /\ last'.session = s
             /\ last'.event.type = "conversation_read")
            => (sent' # << >>
                <=> /\ IsMember(user[s], last'.event.conversation_id)
                    /\ user[s] # last'.event.reader_id)]_vars

\* C27: an event is queued for a session only by a publish to a group the
\* session had joined before, while the session is open, and only open
\* sessions with a joined conversation take events from their queue; a join
\* queues nothing, and a publish to a group without subscribers queues
\* nothing and answers no error.
C27_NoRetroactiveDelivery ==
    [][/\ \A s \in Sessions :
            /\ Len(inbox'[s]) > Len(inbox[s])
                 => /\ Len(published') = 1
                    /\ s \in groups[published'[1].group]
                    /\ sstate[s] = "Active"
                    /\ inbox'[s] = Append(inbox[s], published'[1].event)
            /\ (last'.kind = "deliver" /\ last'.session = s)
                 => /\ sstate[s] = "Active"
                    /\ user_groups[s] # {}
                    /\ inbox[s] # << >>
                    /\ last'.event = Head(inbox[s])
            /\ Received(last', s, "join_conversation") => inbox' = inbox
       /\ (Len(published') = 1 /\ groups[published'[1].group] = {})
            => /\ inbox' = inbox
               /\ \A i \in 1..Len(sent') : sent'[i].type # "error"]_vars

\* a publish has just reached the session that had joined the conversation
\* and not the open session that had not
C27_Witness ==
    /\ Len(published) = 1
    /\ \E s \in Sessions, t \in Sessions :
          /\ s \in groups[published[1].group]
          /\ inbox[s] = <<published[1].event>>
          /\ sstate[t] = "Active"
          /\ t \notin groups[published[1].group]
          /\ inbox[t] = << >>

\* the messages of the error frames that answer a failed database call
GenericErrors ==
    {"Internal server error", "Failed to create message",
     "Database error occurred"}

\* C28: when a database call fails during send, delete or react, the
\* requesting session is sent exactly one error frame with one of the fixed
\* messages, nothing is published, and the session stays Active with the
\* same joined conversations.
C28_FaultGivesOneGenericError ==
    [][\A s \in Sessions :
        (last'.kind = "receive_fault" /\ last'.session = s)
        => /\ Len(sent') = 1
           /\ sent'[1].to = s
           /\ sent'[1].type = "error"
           /\ sent'[1].data \in GenericErrors
           /\ published' = << >>
           /\ sstate'[s] = "Active"
           /\ user_groups'[s] = user_groups[s]]_vars

\* C29: for a valid token and no fault, a cache hit returns the user built
\* from the cached fields without reading the User table or writing the
\* cache; a miss for an existing user reads the User table, writes exactly
\* the entry of that user with a time-to-live of 1800 seconds and returns
\* the loaded user; a miss for a user that does not exist writes nothing.
C29_CacheHitAndMissEffects ==
    [][\A uid \in UserIds :
        (/\ last'.kind = "authenticate"
         /\ last'.fault = "none"
         /\ last'.token.kind = "valid"
         /\ last'.token.user_id = uid)
        => IF auth_cache[uid] # NoEntry
           THEN /\ ~last'.store_read
                /\ last'.cache_set = {}
                /\ auth_cache' = auth_cache
                /\ last'.result = [id |-> auth_cache[uid].id,
                                   is_active |-> auth_cache[uid].is_active]
           ELSE IF user_store[uid] # "absent"
           THEN /\ last'.store_read
                /\ last'.cache_set = {uid}
                /\ auth_cache' =
                     [auth_cache EXCEPT
                        ![uid] = [id |-> uid,
                                  is_active |-> user_store[uid] = "active",
                                  timeout |-> 1800]]
                /\ last'.result = [id |-> uid,
                                   is_active |-> user_store[uid] = "active"]
           ELSE /\ last'.cache_set = {}
                /\ auth_cache' = auth_cache]_vars

\* a valid token of an existing user has just missed the cache: the User
\* table was read and the entry written
C29_Witness ==
    /\ last.kind = "authenticate"
    /\ last.fault = "none"
    /\ last.token.kind = "valid"
    /\ last.store_read
    /\ last.cache_set = {last.token.user_id}
    /\ auth_cache[last.token.user_id].timeout = 1800
    /\ last.result.id = last.token.user_id

\* the TypingIndicator rows of user u in conversation c
TypingMarks(rows, u, c) == {x \in rows : x.user = u /\ x.conversation = c}

\* C30: typing_start by an active member leaves exactly one TypingIndicator
\* row for (conversation, user) and publishes typing_update with is_typing
\* true; typing_stop leaves none and publishes is_typing false; a successful
\* send_message to the conversation leaves none; the close of a session
\* leaves no row of its user.
C30_TypingMarkLifecycle ==
    [][\A s \in Sessions :
        /\ \A c \in Convs :
             /\ (/\ Received(last', s, "typing_start")
                 /\ last'.data.conversation_id = c
                 /\ IsMember(user[s], c))
                => /\ Cardinality(TypingMarks(typing', user[s], c)) = 1
                   /\ Len(published') = 1
                   /\ published'[1].group = GroupName(c)
                   /\ published'[1].event.type = "typing_update"
                   /\ published'[1].event.is_typing
             /\ (/\ Received(last', s, "typing_stop")
                 /\ last'.data.conversation_id = c)
                => /\ TypingMarks(typing', user[s], c) = {}
                   /\ Len(published') = 1
                   /\ published'[1].group = GroupName(c)
                   /\ published'[1].event.type = "typing_update"
                   /\ ~published'[1].event.is_typing
             /\ (/\ Received(last', s, "send_message")
                 /\ last'.data.conversation_id = c
                 /\ Len(messages') = Len(messages) + 1)
                => TypingMarks(typing', user[s], c) = {}
        /\ (sstate[s] = "Active" /\ sstate'[s] = "Closed")
             => \A x \in typing' : x.user # user[s]]_vars

(***************************************************************************)
(* The background file pipeline                                            *)
(***************************************************************************)
\* C31: an attempt of the file pipeline that completes the upload publishes
\* exactly one event, of type file_message, to the group key of the
\* upload's conversation, carrying the Message row it has just stored; an
\* attempt that stores no Message row publishes nothing to that key
C31_CompletionPublishesFileMessage ==
    [][last'.kind = "process_file_upload" =>
          IF last'.status = "success"
          THEN /\ Len(published') = 1
               /\ published'[1].group = GroupName(upload.conversation)
               /\ published'[1].event.type = "file_message"
               /\ published'[1].event.message.id = last'.message_id
               /\ last'.message_id \in 1..Len(messages')
          ELSE \A i \in 1..Len(published') :
                  published'[i].group # GroupName(upload.conversation)]_vars

\* C39: an attempt of process_file_upload that fails and schedules a retry
\* leaves the staged temp file in place for that retry
C39_TempFileKeptForRetry ==
    [][(last'.kind = "process_file_upload" /\ upload.temp_file
        /\ upload'.status = "retry") => upload'.temp_file]_vars

(***************************************************************************)
(* Delivery and membership                                                 *)
(***************************************************************************)
ConversationFrames ==
    {"new_message", "message_deleted", "reaction_update", "typing_update"}

\* C32: whenever a session is handed a new_message, message_deleted,
\* reaction_update or typing_update frame of a conversation, the session's
\* principal holds an active membership of that conversation
C32_DeliveryOnlyToActiveMembers ==
    [][last'.kind = "deliver" =>
          \A i \in 1..Len(sent') :
             sent'[i].type \in ConversationFrames =>
                ActiveMembership(user[sent'[i].to],
                                 sent'[i].data.conversation_id) # {}]_vars

(***************************************************************************)
(* Presence of a principal with several sessions                           *)
(***************************************************************************)
ActiveSessions(u) == {s \in Sessions : sstate[s] = "Active" /\ user[s] = u}

\* C33: the presence record of a principal is online whenever the principal
\* has at least one Active session, and is offline only when it has none
C33_OnlineWhileAnySessionActive ==
    \A u \in Users :
       /\ ActiveSessions(u) # {} => presence[u] = "online"
       /\ presence[u] = "offline" => ActiveSessions(u) = {}

(***************************************************************************)
(* Membership rows under concurrent writers                                *)
(***************************************************************************)
SameMembership(m, n) == m.conversation = n.conversation /\ m.user = n.user

\* C34: a membership that is inactive stays inactive in every step other
\* than add_conversation_member
C34_InactiveStaysInactive ==
    [][last'.kind # "add_member" =>
          \A m \in memberships, n \in memberships' :
             (SameMembership(m, n) /\ ~m.is_active) => ~n.is_active]_vars

\* C35: no step lowers the last-read watermark of a membership
C35_WatermarkNeverDecreases ==
    [][\A m \in memberships, n \in memberships' :
          SameMembership(m, n) => n.last_read_at >= m.last_read_at]_vars

(***************************************************************************)
(* Deactivated accounts                                                    *)
(***************************************************************************)
\* C36: a handshake with a validly signed, unexpired token of a principal
\* whose active flag is false does not make the session Active: the
\* connection is rejected, whether the principal is in the cache or not
C36_DeactivatedPrincipalRejected ==
    [][\A s \in Sessions, uid \in Users :
        (HandshakeOf(last', s, uid) /\ user_store[uid] = "inactive")
        => /\ sstate'[s] = "Rejected"
           /\ ~accepted'[s]]_vars

(***************************************************************************)
(* Sending without joining                                                 *)
(***************************************************************************)
Subscribed(s, c) == s \in groups[GroupName(c)]

\* C37: a send_message of an active member with a non-blank body is carried
\* out whether or not the sender's session joined the conversation: the
\* message is stored and its new_message event is queued for exactly the
\* live sessions subscribed to the conversation's key; the sender's own
\* session gets the event if and only if it is subscribed at that time, and
\* a session hands a new_message event of its own principal to its client
C37_SendNeedsMembershipNotJoin ==
    [][/\ \A s \in Sessions, c \in Convs :
            (/\ Received(last', s, "send_message")
             /\ last'.data.conversation_id = c
             /\ IsMember(user[s], c)
             /\ ~Blank(last'.data.content))
            => /\ messages' # messages
               /\ messages'[Len(messages')].conversation = c
               /\ messages'[Len(messages')].sender = user[s]
               /\ published' # << >>
               /\ published'[1].group = GroupName(c)
               /\ \A t \in Sessions :
                     (inbox'[t] = Append(inbox[t], published'[1].event))
                     <=> (Subscribed(t, c) /\ sstate[t] = "Active")
               /\ \A t \in Sessions :
                     ~(Subscribed(t, c) /\ sstate[t] = "Active")
                     => inbox'[t] = inbox[t]
               /\ (inbox'[s] # inbox[s]) <=> Subscribed(s, c)
       /\ \A s \in Sessions :
            (/\ last'.kind = "deliver" /\ last'.session = s
             /\ last'.event.type = "new_message"
             /\ last'.event.message.sender = user[s])
            => sent' = <<Frame(s, "new_message", last'.event.message)>>]_vars

\* a member whose session never joined c1 has sent to c1, and the message
\* is stored and queued for the other, subscribed session
C37_Witness ==
    /\ last.kind = "receive" /\ last.type = "send_message"
    /\ last.data.conversation_id = "c1"
    /\ ~Subscribed(last.session, "c1")
    /\ messages # << >>
    /\ published # << >>
    /\ inbox[last.session] = << >>
    /\ \E t \in Sessions \ {last.session} :
          Subscribed(t, "c1") /\ inbox[t] # << >>

(***************************************************************************)
(* The member limit                                                        *)
(***************************************************************************)
\* C38: no conversation has more active memberships than its max_members
C38_ActiveMembersWithinLimit ==
    \A c \in AllConvs :
       conversations[c] # NoConversation
       => Cardinality(ActiveMembers(c)) <= conversations[c].max_members
====
